---- MODULE Spec2Model ----
(***************************************************************************)
(* Verification model of the TPIE core fragments:                          *)
(*   - cache_manager_lru (set-associative LRU cache with write-out)        *)
(*   - parallel_sort_impl / qsort_job (job based quicksort)                *)
(* Each subsystem has its own specification over the shared variables.     *)
(***************************************************************************)
EXTENDS Integers, Sequences, FiniteSets, TLC

VARIABLES
    \* ---- cache_manager_lru<T,W> ----
    capacity_,   \* cache_manager_base::capacity_
    assoc_,      \* cache_manager_base::assoc_
    sets_,       \* number of sets
    pdata_,      \* the array of items: [0..capacity_-1 -> [first, second]]
    crashed,     \* the process was killed by an undefined computation
    op,          \* the last public operation: kind, arguments, results
    wb,          \* the calls made to writeout_ by the last operation, in order
    W,           \* which write-out functor the cache was instantiated with
    wlog,        \* state of the logging write-out functor
    hist,        \* the most recent operations, oldest first
    histWindow,  \* how many operations hist keeps
    thr,         \* the threads that are inside an operation of the cache
    start,       \* the cache and the log when those threads were started
    \* ---- parallel_sort_impl / qsort_job / job system ----
    arr,         \* the range [a,b) being sorted: [0..n-1 -> element]
    orig,        \* its contents when parallel_sort was called
    compKind,    \* the comparator comp
    nworkers,    \* size of the worker pool
    jobs,        \* the qsort_job objects created so far, by identity
    queue,       \* the ready queue of the job system (job ids)
    workers,     \* per job in execution: the pc and locals of its worker
    work_estimate,        \* progress.work_estimate, as [hi, lo]
    total_work_estimate,  \* progress.total_work_estimate, as [hi, lo]
    prev_work_estimate,   \* the driver's local of that name
    mutex,       \* holder of progress.mutex
    signalled,   \* progress.cond: a notification has reached the waiting driver
    dpc,         \* where the driver (parallel_sort_impl::operator()) is
    rootDone,    \* the completion signal join() waits for
    doneOrder,   \* the jobs whose on_done ran, in the order it ran
    \* ---- stream ----
    file,        \* the backing file: header (logical length) and records
    strm,        \* the stream object: mode, length, offset, in-core blocks
    written,     \* the items handed to write_item since the file was created
    readback,    \* the results of read_item since the stream was opened
    \* ---- progress_indicator_base ----
    pi,          \* the indicator (progress.pi during a sort), or null
    shown,       \* the tick readings of the latest calls of refresh()
    fpe,         \* the process was stopped by an integer division by zero
    returned,    \* the string estimated_remaining_time() returned last
    \* ---- callers ----
    pass,        \* how many sorts of the range have returned before this one
    \* ---- AMI_device ----
    dev,         \* the device descriptor: argc and argv
    env,         \* the environment of the process: name -> value or NULL
    dop,         \* the latest call on the descriptor and what it returned
    \* ---- calls observed ----
    part,        \* the latest call of partition: range, result, positions
    nsteps       \* <<N>> after set_percentage_range and then N calls of
                 \* step_percentage and no other operation, or null

cacheVars == <<capacity_, assoc_, sets_, pdata_, crashed, op, wb, W, wlog,
               hist, histWindow, thr, start>>

sortVars == <<arr, orig, compKind, nworkers, jobs, queue, workers,
              work_estimate, total_work_estimate, prev_work_estimate,
              mutex, signalled, dpc, rootDone, doneOrder>>

streamVars == <<file, strm, written, readback>>

progressVars == <<pi, shown, fpe, returned>>

\* The variables of the subsystems other than the cache and the sort.
deviceVars == <<dev, env, dop>>

otherVars == <<file, strm, written, readback, pi, shown, fpe, returned,
               pass, dev, env, dop, part, nsteps>>

vars == <<capacity_, assoc_, sets_, pdata_, crashed, op, wb, W, wlog,
          hist, histWindow, thr, start,
          arr, orig, compKind, nworkers, jobs, queue, workers,
          work_estimate, total_work_estimate, prev_work_estimate,
          mutex, signalled, dpc, rootDone, doneOrder,
          file, strm, written, readback,
          pi, shown, fpe, returned, pass, dev, env, dop, part, nsteps>>

\* ------------------------------------------------------------------ bounds
MaxCapacity == 3
MaxKey == 2
NumVals == 2

ValNames == <<"A", "B", "C", "D", "E">>
Vals == {ValNames[i] : i \in 1..NumVals}
Keys == 1..MaxKey
\* An item whose value was never assigned (new item_type_[capacity_]).
NoVal == "?"
\* The null pointer.
null == <<>>

\* ------------------------------------------------------------------ cache

\* pair<TPIE_OS_OFFSET,T>
item_type_(k, v) == [first |-> k, second |-> v]

\* Mutant: the capacity is not reduced to a multiple of the associativity.
cache_manager_lru_not_reduced(capacity, assoc) ==
    LET a0 == IF assoc = 0 THEN capacity ELSE assoc
        a1 == IF capacity # 0 /\ a0 > capacity THEN capacity ELSE a0
    IN  [capacity |-> capacity, assoc |-> a1,
         sets |-> IF capacity # 0 THEN capacity \div a1 ELSE 0]

\* The constructor: effective capacity_, assoc_, sets_ for a request.
cache_manager_lru(capacity, assoc) ==
    LET a0 == IF assoc = 0 THEN capacity ELSE assoc
    IN  IF capacity # 0
        THEN LET a1 == IF a0 > capacity THEN capacity ELSE a0
                 c1 == IF capacity % a1 # 0 THEN (capacity \div a1) * a1
                       ELSE capacity
             IN  [capacity |-> c1, assoc |-> a1, sets |-> c1 \div a1]
        ELSE [capacity |-> 0, assoc |-> a0, sets |-> 0]

\* Mutant: every key is looked up in the line behind its own.
SetBase_next_line(k) == ((k + 1) % sets_) * assoc_

\* Offset in pdata_ of the cache line of key k: (k % sets_) * assoc_.
SetBase(k) == (k % sets_) * assoc_

\* The linear search of read and erase: the first position of the line whose
\* key is k, or n when there is none.
Find(p, base, n, k) ==
    LET hits == {i \in 0..(n-1) : p[base + i].first = k}
    IN  IF hits = {} THEN n
        ELSE CHOOSE i \in hits : \A j \in hits : i <= j

\* b_vector<T>::erase(pos) on the line at base of n items: the items behind
\* pos slide one position down; the last item keeps its content.
b_vector_erase(p, base, n, pos) ==
    [j \in DOMAIN p |->
        IF j >= base + pos /\ j < base + n - 1 THEN p[j + 1] ELSE p[j]]

\* b_vector<T>::insert(t, pos) on the line at base of n items: the items from
\* pos on slide one position up, the last one falls off, t is stored at pos.
b_vector_insert(p, base, n, t, pos) ==
    [j \in DOMAIN p |->
        IF j = base + pos THEN t
        ELSE IF j > base + pos /\ j <= base + n - 1 THEN p[j - 1]
        ELSE p[j]]

\* The last n elements of a sequence.
LastN(s, n) ==
    IF Len(s) <= n THEN s ELSE SubSeq(s, Len(s) - n + 1, Len(s))

\* What an operation leaves behind for the observer and the functor: the
\* operation record, the calls it made to writeout_, the log of the logging
\* functor and the window of most recent operations.
Observe(o, calls) ==
    /\ op' = o
    /\ wb' = calls
    /\ wlog' = IF W = "log" THEN wlog \o calls ELSE wlog
    /\ hist' = LastN(Append(hist, o), histWindow)

OpRec(kind, k, v, ret, item) ==
    [kind |-> kind, k |-> k, v |-> v, ret |-> ret, item |-> item]

\* Mutant: the hit item is marked empty in place, the line is not compacted.
read_remove_inplace(p, base, i) ==
    [p EXCEPT ![base + i].first = 0]

\* read, on a hit at position i of the line at base: the item is erased from
\* the line and the last item is marked empty (nothing is written out).
read_remove(p, base, i) ==
    LET p1 == IF assoc_ > 1
              THEN b_vector_erase(p, base, assoc_, i)
              ELSE p
    IN  [p1 EXCEPT ![base + assoc_ - 1].first = 0]

\* bool read(TPIE_OS_OFFSET k, T& item)
read(k) ==
    /\ ~crashed
    /\ k # 0
    /\ IF capacity_ = 0
       THEN /\ Observe(OpRec("read", k, NoVal, FALSE, NoVal), <<>>)
            /\ UNCHANGED pdata_
       ELSE LET base == SetBase(k)
                i == Find(pdata_, base, assoc_, k)
            IN  IF i = assoc_
                THEN /\ Observe(OpRec("read", k, NoVal, FALSE, NoVal), <<>>)
                     /\ UNCHANGED pdata_
                ELSE /\ pdata_' = read_remove(pdata_, base, i)
                     /\ Observe(OpRec("read", k, NoVal, TRUE,
                                      pdata_[base + i].second), <<>>)
    /\ UNCHANGED <<capacity_, assoc_, sets_, crashed, W, histWindow, thr, start>>
    /\ UNCHANGED sortVars
    /\ UNCHANGED otherVars

\* Mutant: the item that falls off the line is not written out.
write_writeout_never(p, base) == <<>>

\* Mutant: the first position is tested and written out instead of the last.
write_writeout_first(p, base) ==
    IF p[base].first # 0 THEN <<p[base].second>> ELSE <<>>

\* write: the item in the last position of the line is written out when that
\* position is occupied.
write_writeout(p, base) ==
    IF p[base + assoc_ - 1].first # 0
    THEN <<p[base + assoc_ - 1].second>>
    ELSE <<>>

\* Mutant: the first position is overwritten, the line is not shifted.
write_insert_overwrite(p, base, k, item) ==
    [p EXCEPT ![base] = item_type_(k, item)]

\* write: insert in the first position of the line.
write_insert(p, base, k, item) ==
    IF assoc_ > 1
    THEN b_vector_insert(p, base, assoc_, item_type_(k, item), 0)
    ELSE [p EXCEPT ![base] = item_type_(k, item)]

\* Mutant: with capacity_ == 0 the item is dropped, writeout_ is not called.
write_dropped(k, item) ==
    /\ ~crashed
    /\ k # 0
    /\ IF capacity_ = 0
       THEN /\ Observe(OpRec("write", k, item, TRUE, NoVal), <<>>)
            /\ UNCHANGED pdata_
       ELSE /\ pdata_' = write_insert(pdata_, SetBase(k), k, item)
            /\ Observe(OpRec("write", k, item, TRUE, NoVal),
                       write_writeout(pdata_, SetBase(k)))
    /\ UNCHANGED <<capacity_, assoc_, sets_, crashed, W, histWindow, thr, start>>
    /\ UNCHANGED sortVars
    /\ UNCHANGED otherVars

\* bool write(TPIE_OS_OFFSET k, const T& item)
write(k, item) ==
    /\ ~crashed
    /\ k # 0
    /\ IF capacity_ = 0
       THEN /\ Observe(OpRec("write", k, item, TRUE, NoVal), <<item>>)
            /\ UNCHANGED pdata_
       ELSE /\ pdata_' = write_insert(pdata_, SetBase(k), k, item)
            /\ Observe(OpRec("write", k, item, TRUE, NoVal),
                       write_writeout(pdata_, SetBase(k)))
    /\ UNCHANGED <<capacity_, assoc_, sets_, crashed, W, histWindow, thr, start>>
    /\ UNCHANGED sortVars
    /\ UNCHANGED otherVars

\* Mutant: the hit item is marked empty in place, the line is not compacted.
erase_remove_inplace(p, base, i) ==
    [p EXCEPT ![base + i].first = 0]

\* erase, on a hit at position i of the line at base: the item is erased from
\* the line and the last item is marked empty.
erase_remove(p, base, i) ==
    LET p1 == b_vector_erase(p, base, assoc_, i)
    IN  [p1 EXCEPT ![base + assoc_ - 1].first = 0]

\* bool erase(TPIE_OS_OFFSET k).  With capacity_ = 0 the line offset is
\* k % 0: the division traps, or (on a target where it yields a value)
\* the search runs over the assoc_ items of a null array, which is a miss
\* when assoc_ = 0 and a fault otherwise.
erase(k) ==
    /\ ~crashed
    /\ k # 0
    /\ IF sets_ = 0
       THEN /\ \/ crashed' = TRUE
               \/ assoc_ = 0 /\ crashed' = FALSE
            /\ Observe(OpRec("erase", k, NoVal, FALSE, NoVal), <<>>)
            /\ UNCHANGED pdata_
       ELSE LET base == SetBase(k)
                i == Find(pdata_, base, assoc_, k)
            IN  /\ IF i = assoc_
                   THEN /\ Observe(OpRec("erase", k, NoVal, FALSE, NoVal), <<>>)
                        /\ UNCHANGED pdata_
                   ELSE /\ pdata_' = erase_remove(pdata_, base, i)
                        /\ Observe(OpRec("erase", k, NoVal, TRUE, NoVal),
                                   <<pdata_[base + i].second>>)
                /\ UNCHANGED crashed
    /\ UNCHANGED <<capacity_, assoc_, sets_, W, histWindow, thr, start>>
    /\ UNCHANGED sortVars
    /\ UNCHANGED otherVars

\* The values flush hands to writeout_: those of the occupied items among
\* pdata_[i..capacity_-1], by increasing index.
RECURSIVE FlushCalls(_, _)
FlushCalls(p, i) ==
    IF i >= capacity_ THEN <<>>
    ELSE (IF p[i].first # 0 THEN <<p[i].second>> ELSE <<>>)
         \o FlushCalls(p, i + 1)

\* Mutant: the written-out items are not marked empty.
flush_clear_forgotten(p) == p

\* flush: every occupied item is marked empty once written out.
flush_clear(p) ==
    [j \in DOMAIN p |-> IF p[j].first # 0 THEN [p[j] EXCEPT !.first = 0]
                        ELSE p[j]]

\* void flush()
flush ==
    /\ ~crashed
    /\ pdata_' = flush_clear(pdata_)
    /\ Observe(OpRec("flush", 0, NoVal, TRUE, NoVal), FlushCalls(pdata_, 0))
    /\ UNCHANGED <<capacity_, assoc_, sets_, crashed, W, histWindow, thr, start>>
    /\ UNCHANGED sortVars
    /\ UNCHANGED otherVars

\* State after construction with the given request, functor and window; op
\* holds the constructor's arguments (capacity as k, assoc as v).
Constructed(capacity, assoc, functor, window) ==
    LET c == cache_manager_lru(capacity, assoc)
    IN  /\ capacity_ = c.capacity
        /\ assoc_ = c.assoc
        /\ sets_ = c.sets
        /\ pdata_ = [j \in 0..(c.capacity - 1) |-> item_type_(0, NoVal)]
        /\ crashed = FALSE
        /\ op = OpRec("new", capacity, assoc, TRUE, NoVal)
        /\ wb = <<>>
        /\ W = functor
        /\ wlog = <<>>
        /\ hist = <<>>
        /\ histWindow = window
        /\ thr = <<>>
        /\ start = [p |-> <<>>, n |-> 0]

\* No progress indicator exists.
NoProgress ==
    /\ pi = null /\ shown = <<>> /\ fpe = FALSE
    /\ returned = ""

\* No call has been observed.
NoCall == part = null /\ nsteps = null

\* No device descriptor exists.
NoDevice ==
    /\ dev = [members |-> "written", argc |-> 0, argv |-> null]
    /\ env = <<>>
    /\ dop = [kind |-> "none", arg |-> <<>>, ret |-> "none"]

\* No stream exists.
NoStream ==
    /\ file = [length |-> 0, data |-> <<>>]
    /\ strm = [mode |-> "none"]
    /\ written = <<>> /\ readback = <<>>

\* No sort is in progress.
NoSort ==
    /\ arr = <<>> /\ orig = <<>> /\ compKind = "less" /\ nworkers = 0
    /\ jobs = <<>> /\ queue = <<>> /\ workers = <<>>
    /\ work_estimate = [hi |-> 0, lo |-> 0]
    /\ total_work_estimate = [hi |-> 0, lo |-> 0]
    /\ prev_work_estimate = [hi |-> 0, lo |-> 0]
    /\ mutex = "free" /\ signalled = FALSE /\ dpc = "none"
    /\ rootDone = FALSE /\ doneOrder = <<>>
    /\ pass = 0

Init ==
    /\ \E c \in 0..MaxCapacity, a \in 0..(MaxCapacity + 1) :
          Constructed(c, a, "null", 0)
    /\ NoSort
    /\ NoStream
    /\ NoDevice
    /\ NoCall
    /\ NoProgress

Next ==
    \/ \E k \in Keys : read(k)
    \/ \E k \in Keys, v \in Vals : write(k, v)
    \/ \E k \in Keys : erase(k)
    \/ flush

Spec == Init /\ [][Next]_vars

\* The same cache, observed through a window of the three latest operations.
InitTrail ==
    /\ \E c \in 0..MaxCapacity, a \in 0..(MaxCapacity + 1) :
          Constructed(c, a, "null", 3)
    /\ NoSort
    /\ NoStream
    /\ NoDevice
    /\ NoCall
    /\ NoProgress

SpecTrail == InitTrail /\ [][Next]_vars

\* The write sequence of the end-to-end cache scenario, run against a cache
\* whose write-out functor appends to a log.
Script == <<<<1, "A">>, <<3, "B">>, <<5, "C">>, <<7, "D">>, <<9, "E">>>>

InitScenario ==
    /\ \E c \in 0..Len(Script), a \in 0..Len(Script) :
          Constructed(c, a, "log", Len(Script))
    /\ NoSort
    /\ NoStream
    /\ NoDevice
    /\ NoCall
    /\ NoProgress

NextScenario ==
    \E i \in 1..Len(Script) :
        /\ Len(hist) < Len(Script)
        /\ write(Script[i][1], Script[i][2])

SpecScenario == InitScenario /\ [][NextScenario]_vars

\* ------------------------------------------- two threads inside one cache
\* cache_manager_lru takes no lock: operations called by two threads
\* interleave statement by statement.  The linear search and the b_vector
\* operations are taken as single steps.

Threads == {1, 2}

\* The calls a thread can make.
Calls ==
    {[kind |-> "read", k |-> k, v |-> NoVal] : k \in Keys}
    \cup {[kind |-> "write", k |-> k, v |-> v] : k \in Keys, v \in Vals}
    \cup {[kind |-> "erase", k |-> k, v |-> NoVal] : k \in Keys}
    \cup {[kind |-> "flush", k |-> 0, v |-> NoVal]}

\* The first statement of each operation.
Entry(kind) ==
    CASE kind = "read" -> "read_find"
      [] kind = "write" -> "write_test"
      [] kind = "erase" -> "erase_find"
      [] kind = "flush" -> "flush_test"

\* The effect of operation o when it runs alone on the array p: the array it
\* leaves, its calls to writeout_, its return value and the item it passes up.
Alone(p, o) ==
    LET base == SetBase(o.k)
        i == Find(p, base, assoc_, o.k)
        miss == [p |-> p, calls |-> <<>>, ret |-> FALSE, item |-> NoVal]
    IN  CASE o.kind = "read" ->
               IF capacity_ = 0 \/ i = assoc_ THEN miss
               ELSE [p |-> read_remove(p, base, i), calls |-> <<>>,
                     ret |-> TRUE, item |-> p[base + i].second]
          [] o.kind = "write" ->
               IF capacity_ = 0
               THEN [p |-> p, calls |-> <<o.v>>, ret |-> TRUE, item |-> NoVal]
               ELSE [p |-> write_insert(p, base, o.k, o.v),
                     calls |-> write_writeout(p, base),
                     ret |-> TRUE, item |-> NoVal]
          [] o.kind = "erase" ->
               IF i = assoc_ THEN miss
               ELSE [p |-> erase_remove(p, base, i),
                     calls |-> <<p[base + i].second>>,
                     ret |-> TRUE, item |-> NoVal]
          [] o.kind = "flush" ->
               [p |-> flush_clear(p), calls |-> FlushCalls(p, 0),
                ret |-> TRUE, item |-> NoVal]

\* Thread t moves to the statement pc / returns ret.
Goto(t, pc) == thr' = [thr EXCEPT ![t].pc = pc]
Return(t, ret) == thr' = [thr EXCEPT ![t].pc = "done", ![t].ret = ret]

\* What no statement of an operation touches.
ThreadFrame ==
    /\ UNCHANGED <<capacity_, assoc_, sets_, crashed, op, wb, W, hist,
                   histWindow, start>>
    /\ UNCHANGED sortVars
    /\ UNCHANGED otherVars

\* Thread t is at statement pc.
At(t, pc) == thr # <<>> /\ thr[t].pc = pc

\* The offset of the cache line of the key thread t was called with.
Line(t) == SetBase(thr[t].op.k)

\* Two threads call one operation each on the same cache.
T_start(o1, o2) ==
    /\ thr = <<>>
    /\ thr' = [t \in Threads |->
                 LET o == IF t = 1 THEN o1 ELSE o2
                 IN  [op |-> o, pc |-> Entry(o.kind), i |-> 0,
                      ret |-> FALSE, item |-> NoVal]]
    /\ start' = [p |-> pdata_, n |-> Len(wlog)]
    /\ UNCHANGED <<capacity_, assoc_, sets_, pdata_, crashed, op, wb, W,
                   wlog, hist, histWindow>>
    /\ UNCHANGED sortVars
    /\ UNCHANGED otherVars

\* read: if (capacity_ == 0) return false; the search; if (i == assoc_)
\* return false.
T_read_find(t) ==
    /\ At(t, "read_find")
    /\ LET i == Find(pdata_, Line(t), assoc_, thr[t].op.k)
       IN  IF capacity_ = 0 \/ i = assoc_
           THEN Return(t, FALSE)
           ELSE thr' = [thr EXCEPT ![t].pc = "read_copy", ![t].i = i]
    /\ UNCHANGED <<pdata_, wlog>>
    /\ ThreadFrame

\* read: item = set[i].second
T_read_copy(t) ==
    /\ At(t, "read_copy")
    /\ thr' = [thr EXCEPT ![t].pc = "read_erase",
                          ![t].item = pdata_[Line(t) + thr[t].i].second]
    /\ UNCHANGED <<pdata_, wlog>>
    /\ ThreadFrame

\* read: if (assoc_ > 1) set.erase(i)
T_read_erase(t) ==
    /\ At(t, "read_erase")
    /\ pdata_' = IF assoc_ > 1
                 THEN b_vector_erase(pdata_, Line(t), assoc_, thr[t].i)
                 ELSE pdata_
    /\ Goto(t, "read_mark")
    /\ UNCHANGED wlog
    /\ ThreadFrame

\* read: set[assoc_ - 1].first = 0; return true
T_read_mark(t) ==
    /\ At(t, "read_mark")
    /\ pdata_' = [pdata_ EXCEPT ![Line(t) + assoc_ - 1].first = 0]
    /\ Return(t, TRUE)
    /\ UNCHANGED wlog
    /\ ThreadFrame

\* write: with capacity_ == 0 the item goes to writeout_; otherwise the test
\* set[assoc_ - 1].first != 0.
T_write_test(t) ==
    /\ At(t, "write_test")
    /\ IF capacity_ = 0
       THEN /\ wlog' = Append(wlog, thr[t].op.v)
            /\ Return(t, TRUE)
       ELSE /\ Goto(t, IF pdata_[Line(t) + assoc_ - 1].first # 0
                       THEN "write_writeout" ELSE "write_insert")
            /\ UNCHANGED wlog
    /\ UNCHANGED pdata_
    /\ ThreadFrame

\* write: writeout_(set[assoc_ - 1].second)
T_write_writeout(t) ==
    /\ At(t, "write_writeout")
    /\ wlog' = Append(wlog, pdata_[Line(t) + assoc_ - 1].second)
    /\ Goto(t, "write_insert")
    /\ UNCHANGED pdata_
    /\ ThreadFrame

\* write: the insertion in the first position; return true
T_write_insert(t) ==
    /\ At(t, "write_insert")
    /\ pdata_' = write_insert(pdata_, Line(t), thr[t].op.k, thr[t].op.v)
    /\ Return(t, TRUE)
    /\ UNCHANGED wlog
    /\ ThreadFrame

\* erase: the search; if (i == set.capacity()) return false
T_erase_find(t) ==
    /\ At(t, "erase_find")
    /\ LET i == Find(pdata_, Line(t), assoc_, thr[t].op.k)
       IN  IF i = assoc_
           THEN Return(t, FALSE)
           ELSE thr' = [thr EXCEPT ![t].pc = "erase_writeout", ![t].i = i]
    /\ UNCHANGED <<pdata_, wlog>>
    /\ ThreadFrame

\* erase: writeout_(set[i].second)
T_erase_writeout(t) ==
    /\ At(t, "erase_writeout")
    /\ wlog' = Append(wlog, pdata_[Line(t) + thr[t].i].second)
    /\ Goto(t, "erase_erase")
    /\ UNCHANGED pdata_
    /\ ThreadFrame

\* erase: set.erase(i)
T_erase_erase(t) ==
    /\ At(t, "erase_erase")
    /\ pdata_' = b_vector_erase(pdata_, Line(t), assoc_, thr[t].i)
    /\ Goto(t, "erase_mark")
    /\ UNCHANGED wlog
    /\ ThreadFrame

\* erase: set[set.capacity() - 1].first = 0; return true
T_erase_mark(t) ==
    /\ At(t, "erase_mark")
    /\ pdata_' = [pdata_ EXCEPT ![Line(t) + assoc_ - 1].first = 0]
    /\ Return(t, TRUE)
    /\ UNCHANGED wlog
    /\ ThreadFrame

\* flush: the loop test i < capacity_ and if (pdata_[i].first != 0)
T_flush_test(t) ==
    /\ At(t, "flush_test")
    /\ IF thr[t].i >= capacity_
       THEN Return(t, TRUE)
       ELSE IF pdata_[thr[t].i].first # 0
            THEN Goto(t, "flush_writeout")
            ELSE thr' = [thr EXCEPT ![t].i = thr[t].i + 1]
    /\ UNCHANGED <<pdata_, wlog>>
    /\ ThreadFrame

\* flush: writeout_(pdata_[i].second)
T_flush_writeout(t) ==
    /\ At(t, "flush_writeout")
    /\ wlog' = Append(wlog, pdata_[thr[t].i].second)
    /\ Goto(t, "flush_clear")
    /\ UNCHANGED pdata_
    /\ ThreadFrame

\* flush: pdata_[i].first = 0; i++
T_flush_clear(t) ==
    /\ At(t, "flush_clear")
    /\ pdata_' = [pdata_ EXCEPT ![thr[t].i].first = 0]
    /\ thr' = [thr EXCEPT ![t].pc = "flush_test", ![t].i = thr[t].i + 1]
    /\ UNCHANGED wlog
    /\ ThreadFrame

\* A cache with a logging functor is filled by one thread with up to
\* capacity_ writes; then two threads call one operation each.
InitThreads ==
    /\ \E c \in 1..MaxCapacity, a \in 0..MaxCapacity :
          Constructed(c, a, "log", MaxCapacity)
    /\ NoSort
    /\ NoStream
    /\ NoDevice
    /\ NoCall
    /\ NoProgress

Fill ==
    /\ thr = <<>>
    /\ Len(hist) < capacity_
    /\ \E k \in Keys, v \in Vals : write(k, v)

ThreadStep(t) ==
    \/ T_read_find(t) \/ T_read_copy(t) \/ T_read_erase(t) \/ T_read_mark(t)
    \/ T_write_test(t) \/ T_write_writeout(t) \/ T_write_insert(t)
    \/ T_erase_find(t) \/ T_erase_writeout(t) \/ T_erase_erase(t)
    \/ T_erase_mark(t)
    \/ T_flush_test(t) \/ T_flush_writeout(t) \/ T_flush_clear(t)

NextThreads ==
    \/ Fill
    \/ \E o1, o2 \in Calls : T_start(o1, o2)
    \/ \E t \in Threads : ThreadStep(t)

SpecThreads == InitThreads /\ [][NextThreads]_vars

\* ------------------------------------------------------------ cache claims

Occupied(p, j) == p[j].first # 0

\* The positions of pdata_ that make up the line of key k.
LineOf(k) == {(k % sets_) * assoc_ + i : i \in 0..(assoc_ - 1)}

\* How many times v occurs in the sequence s.
Count(s, v) == Cardinality({i \in 1..Len(s) : s[i] = v})

\* C1 (as amended): the write-out functor is invoked exactly when a write
\* displaces an occupied last slot of its line (once, with that slot's value),
\* when a write is made to a cache of capacity 0 (once, with the written
\* value), when an erase matches an entry (once, with a matching entry's
\* value), or when flush meets occupied slots (once per occupied slot); a
\* read never invokes it, hit or miss.
C1_Cases ==
    CASE op'.kind = "read" -> wb' = <<>>
      [] op'.kind = "write" ->
            IF capacity_ = 0 THEN wb' = <<op'.v>>
            ELSE LET lru == (op'.k % sets_) * assoc_ + assoc_ - 1
                 IN  IF Occupied(pdata_, lru)
                     THEN wb' = <<pdata_[lru].second>>
                     ELSE wb' = <<>>
      [] op'.kind = "erase" ->
            IF sets_ > 0 /\ \E j \in LineOf(op'.k) : pdata_[j].first = op'.k
            THEN /\ Len(wb') = 1
                 /\ \E j \in LineOf(op'.k) :
                        pdata_[j].first = op'.k /\ wb'[1] = pdata_[j].second
            ELSE wb' = <<>>
      [] op'.kind = "flush" ->
            Len(wb') = Cardinality({j \in DOMAIN pdata_ : Occupied(pdata_, j)})
      [] OTHER -> TRUE

C1_WritebackCases == [][C1_Cases]_vars

\* C1 witness: a write has displaced the occupied last slot of a line.
C1_Witness == op.kind = "write" /\ capacity_ > 0 /\ Len(wb) = 1

\* C1 as originally stated: a write-out happens only on a displacing write,
\* a matching erase or a flush that meets an occupied slot.
C1_OriginalCases ==
    wb' # <<>> =>
        \/ /\ op'.kind = "write"
           /\ capacity_ > 0
           /\ Occupied(pdata_, (op'.k % sets_) * assoc_ + assoc_ - 1)
        \/ /\ op'.kind = "erase"
           /\ sets_ > 0
           /\ \E j \in LineOf(op'.k) : pdata_[j].first = op'.k
        \/ /\ op'.kind = "flush"
           /\ \E j \in DOMAIN pdata_ : Occupied(pdata_, j)

C1_Original == [][C1_OriginalCases]_vars

\* C2: at most capacity_ slots are occupied, and within each line the
\* occupied slots form a prefix (no empty slot precedes an occupied one).
C2_DensePrefix ==
    /\ Cardinality({j \in DOMAIN pdata_ : Occupied(pdata_, j)}) <= capacity_
    /\ \A s \in 0..(sets_ - 1) : \A i, j \in 0..(assoc_ - 1) :
          i < j /\ Occupied(pdata_, s * assoc_ + j)
              => Occupied(pdata_, s * assoc_ + i)

\* C2 witness: a read hit has removed an entry from a line that still holds
\* another one.
C2_Witness ==
    /\ op.kind = "read" /\ op.ret /\ assoc_ >= 2
    /\ \E s \in 0..(sets_ - 1) :
          /\ Occupied(pdata_, s * assoc_)
          /\ ~Occupied(pdata_, s * assoc_ + assoc_ - 1)

\* C3: write(k,v), read(k), read(k) in a row: the first read returns (v, true)
\* and the second returns false, whatever preceded the write.
C3_WriteReadRead ==
    ( /\ Len(hist) = 3
      /\ capacity_ >= 1
      /\ hist[1].kind = "write"
      /\ hist[2].kind = "read" /\ hist[2].k = hist[1].k
      /\ hist[3].kind = "read" /\ hist[3].k = hist[1].k )
    => /\ hist[2].ret
       /\ hist[2].item = hist[1].v
       /\ ~hist[3].ret

\* The writes of hist that went to line s, oldest first.
WritesTo(s) ==
    LET InLine(o) == o.kind = "write" /\ o.k % sets_ = s
    IN  SelectSeq(hist, InLine)

\* C4, the step: a write puts the new entry at position 0 of its line, every
\* prior occupant one position further keeping the order, and writes out
\* exactly the entry that was at position assoc_ - 1 when the line was full.
C4_WriteStep ==
    (op'.kind = "write" /\ capacity_ > 0) =>
        LET base == (op'.k % sets_) * assoc_
        IN  /\ pdata_'[base] = item_type_(op'.k, op'.v)
            /\ \A i \in 0..(assoc_ - 2) :
                  Occupied(pdata_, base + i)
                      => pdata_'[base + i + 1] = pdata_[base + i]
            /\ IF Occupied(pdata_, base + assoc_ - 1)
               THEN wb' = <<pdata_[base + assoc_ - 1].second>>
               ELSE wb' = <<>>

\* C4, the order: the residents of a line are its most recent writes, the
\* newest first.
C4_RecencyOrder ==
    capacity_ > 0 =>
        \A s \in 0..(sets_ - 1) :
            LET ws == WritesTo(s)
            IN  \A i \in 0..(assoc_ - 1) :
                    IF i < Len(ws)
                    THEN pdata_[s * assoc_ + i]
                            = item_type_(ws[Len(ws) - i].k, ws[Len(ws) - i].v)
                    ELSE ~Occupied(pdata_, s * assoc_ + i)

\* The scenario's five writes have been made, in order, to a cache of
\* capacity 4 and associativity 2.
ScenarioRun ==
    /\ capacity_ = 4 /\ assoc_ = 2
    /\ Len(hist) = Len(Script)
    /\ \A i \in 1..Len(Script) :
          hist[i].k = Script[i][1] /\ hist[i].v = Script[i][2]

\* C4, the example: the log is [A,B,C] and line 1 holds [(9,E),(7,D)].
C4_Example ==
    ScenarioRun =>
        /\ wlog = <<"A", "B", "C">>
        /\ pdata_[2] = item_type_(9, "E")
        /\ pdata_[3] = item_type_(7, "D")

\* C4: residents are ordered by recency of insertion, a write shifts them and
\* writes out the least recently written one of a full line; the example run.
C4_LruOrder == [][C4_WriteStep]_vars /\ [](C4_RecencyOrder /\ C4_Example)

\* C4 witness: the example run has completed.
C4_Witness == ScenarioRun /\ Len(wlog) = 3

\* C10: flush writes out each occupied slot's value exactly once and nothing
\* else, leaves every slot empty, and a flush right after it writes nothing.
C10_FlushStep ==
    /\ op'.kind = "flush" =>
          /\ \A j \in DOMAIN pdata_' : ~Occupied(pdata_', j)
          /\ \A v \in {pdata_[j].second : j \in DOMAIN pdata_}
                      \cup {wb'[i] : i \in 1..Len(wb')} :
                Count(wb', v) = Cardinality({j \in DOMAIN pdata_ :
                                   Occupied(pdata_, j) /\ pdata_[j].second = v})
    /\ (op.kind = "flush" /\ op'.kind = "flush") => wb' = <<>>

C10_Flush == [][C10_FlushStep]_vars

\* C10 witness: a flush has written out two or more values.
C10_Witness == op.kind = "flush" /\ Len(wb) >= 2

\* C11, the step: erase(k) on a cache of capacity >= 1 returns true exactly
\* when an entry with key k is resident in the line of k; on a hit the matched
\* entry's value is written out once, the entries behind it move one position
\* toward 0 keeping their order, the last slot of the line becomes empty and
\* nothing else changes; on a miss nothing is written out and no slot changes.
C11_EraseStep ==
    (op'.kind = "erase" /\ capacity_ >= 1) =>
        LET base == (op'.k % sets_) * assoc_
            hits == {i \in 0..(assoc_ - 1) : pdata_[base + i].first = op'.k}
        IN  /\ op'.ret = (hits # {})
            /\ IF hits # {}
               THEN \E i \in hits :
                      /\ wb' = <<pdata_[base + i].second>>
                      /\ \A j \in DOMAIN pdata_ :
                            (j < base + i \/ j >= base + assoc_)
                                => pdata_'[j] = pdata_[j]
                      /\ \A j \in (base + i)..(base + assoc_ - 2) :
                            pdata_'[j] = pdata_[j + 1]
                      /\ ~Occupied(pdata_', base + assoc_ - 1)
               ELSE wb' = <<>> /\ pdata_' = pdata_

C11_Erase == [][C11_EraseStep]_vars

\* C11 witness: an erase has matched an entry of a line that still holds
\* another entry.
C11_Witness ==
    /\ op.kind = "erase" /\ op.ret /\ assoc_ >= 2
    /\ Len(wb) = 1
    /\ Occupied(pdata_, (op.k % sets_) * assoc_)

\* C12, the step: on a cache constructed with capacity 0 a write hands its
\* value to the write-out functor, once, and stores nothing; a read returns
\* false and hands nothing to the functor.
C12_ZeroStep ==
    capacity_ = 0 =>
        /\ pdata_' = <<>>
        /\ op'.kind = "write" => wb' = <<op'.v>> /\ op'.ret
        /\ op'.kind = "read" => wb' = <<>> /\ ~op'.ret

C12_ZeroCapacity == [][C12_ZeroStep]_vars

\* C12 witness: a cache of capacity 0 has served a write, whose value went
\* to the write-out functor.
C12_Witness ==
    /\ capacity_ = 0
    /\ pdata_ = <<>>
    /\ op.kind = "write" /\ op.ret
    /\ wb = <<op.v>>

\* C13: a cache constructed with requested capacity C >= 1 and associativity
\* A has associativity A' = C when A = 0 or A > C and A' = A otherwise,
\* capacity C' = floor(C / A') * A' and S = C' / A' sets, with S >= 1,
\* S * A' = C' <= C and A' <= C'; its C' slots are all empty.
C13_Construction ==
    (op.kind = "new" /\ op.k >= 1) =>
        LET C == op.k
            A == op.v
            A1 == IF A = 0 \/ A > C THEN C ELSE A
            C1 == (C \div A1) * A1
        IN  /\ assoc_ = A1
            /\ capacity_ = C1
            /\ sets_ = C1 \div A1
            /\ sets_ >= 1
            /\ sets_ * assoc_ = capacity_
            /\ capacity_ <= C
            /\ assoc_ <= capacity_
            /\ DOMAIN pdata_ = 0..(C1 - 1)
            /\ \A j \in DOMAIN pdata_ : ~Occupied(pdata_, j)

\* C13 witness: a cache was requested with capacity 3 and associativity 2,
\* which does not divide the capacity.
C13_Witness == op.kind = "new" /\ op.k = 3 /\ op.v = 2

\* The occupied items of an array (what an empty item holds is not part of
\* the cache's content).
Visible(p) ==
    [j \in DOMAIN p |->
        IF p[j].first = 0 THEN item_type_(0, NoVal) ELSE p[j]]

\* The outcome of the two calls: the cache they leave, the calls they made
\* to writeout_, and what each of them returned.
Outcome ==
    [p |-> Visible(pdata_),
     log |-> SubSeq(wlog, start.n + 1, Len(wlog)),
     res |-> [t \in Threads |-> [ret |-> thr[t].ret, item |-> thr[t].item]]]

\* The outcome of running the call of thread t1 and then the call of t2.
Serial(t1, t2) ==
    LET r1 == Alone(start.p, thr[t1].op)
        r2 == Alone(r1.p, thr[t2].op)
    IN  [p |-> Visible(r2.p),
         log |-> r1.calls \o r2.calls,
         res |-> (t1 :> [ret |-> r1.ret, item |-> r1.item])
                 @@ (t2 :> [ret |-> r2.ret, item |-> r2.item])]

\* C9: when two threads have called one operation each on the same cache
\* and both calls have returned, the outcome (the cache content, the
\* write-backs, the results) is that of running the two operations one after
\* the other in one of the two orders.
C9_Atomic ==
    (thr # <<>> /\ \A t \in Threads : thr[t].pc = "done")
        => Outcome \in {Serial(1, 2), Serial(2, 1)}

\* ------------------------------------------------------------ parallel sort

\* Bounds of the sort model.
MaxN == 4
MaxElem == 1
MaxWorkers == 2
QueueCap == 1
\* The template parameter min_size of parallel_sort_impl, scaled down.
min_size == 3

Elems == 0..MaxElem

\* comp(x, y) for the two comparators of the model: std::less, and a strict
\* weak ordering under which 2i and 2i+1 are equivalent.
comp(c, x, y) ==
    IF c = "less" THEN x < y ELSE (x \div 2) < (y \div 2)

\* b - a for the whole range held in A.
Size(A) == Cardinality(DOMAIN A)

\* std::iter_swap
iter_swap(A, i, j) == [A EXCEPT ![i] = A[j], ![j] = A[i]]

\* unguarded_partition: do --last; while (comp(*pivot, *last));
RECURSIVE ScanDown(_, _, _, _)
ScanDown(A, c, pivot, last) ==
    LET l == last - 1
    IN  IF l \in DOMAIN A /\ comp(c, A[pivot], A[l])
        THEN ScanDown(A, c, pivot, l)
        ELSE l

\* unguarded_partition:
\* do { if (first == last) break; ++first; } while (comp(*first, *pivot));
RECURSIVE ScanUp(_, _, _, _, _)
ScanUp(A, c, pivot, first, last) ==
    IF first = last THEN first
    ELSE LET f == first + 1
         IN  IF f \in DOMAIN A /\ comp(c, A[f], A[pivot])
             THEN ScanUp(A, c, pivot, f, last)
             ELSE f

\* unguarded_partition: the while (true) loop and the final swap.  The result
\* is the permuted array, the returned position and the positions the call
\* has dereferenced: *pivot, every *last of the scan down, every *first of
\* the scan up and the operands of the swaps.
RECURSIVE PartitionLoop(_, _, _, _, _)
PartitionLoop(A, c, pivot, first, last) ==
    LET l == ScanDown(A, c, pivot, last)
        f == ScanUp(A, c, pivot, first, l)
        seen == {pivot} \cup l..(last - 1) \cup (first + 1)..f
    IN  IF f = l
        THEN [arr |-> iter_swap(A, l, pivot), ret |-> l, touched |-> seen]
        ELSE LET r == PartitionLoop(iter_swap(A, f, l), c, pivot, f, l)
             IN  [r EXCEPT !.touched = @ \cup seen]

\* Mutant: the pivot is not swapped into its final position.
unguarded_partition_pivot_left(A, c, first, last) ==
    LET r == PartitionLoop(A, c, first, first, last)
    IN  [r EXCEPT !.arr = iter_swap(r.arr, r.ret, first)]

unguarded_partition(A, c, first, last) ==
    PartitionLoop(A, c, first, first, last)

\* median(a, b, c, comp): the position of the median of three.
median(A, cmp, a, b, c) ==
    IF comp(cmp, A[a], A[b])
    THEN IF comp(cmp, A[b], A[c]) THEN b
         ELSE IF comp(cmp, A[a], A[c]) THEN c
         ELSE a
    ELSE IF comp(cmp, A[a], A[c]) THEN a
         ELSE IF comp(cmp, A[b], A[c]) THEN c
         ELSE b

\* pick_pivot(a, b, comp): the ninther.
pick_pivot(A, cmp, a, b) ==
    IF a = b THEN a
    ELSE LET step == (b - a) \div 8
         IN  median(A, cmp,
                    median(A, cmp, a + 0, a + step, a + step * 2),
                    median(A, cmp, a + step * 3, a + step * 4, a + step * 5),
                    median(A, cmp, a + step * 6, a + step * 7, b - 1))

\* The positions pick_pivot(a, b, comp) dereferences.
pick_pivot_reads(a, b) ==
    IF a = b THEN {}
    ELSE {a + ((b - a) \div 8) * k : k \in 0..7} \cup {b - 1}

\* Mutant: the pivot stays where it was found and the scans start there.
partition_from_pivot(A, cmp, a, b) ==
    LET pivot == pick_pivot(A, cmp, a, b)
        r == unguarded_partition(A, cmp, pivot, b)
    IN  [r EXCEPT !.touched = @ \cup pick_pivot_reads(a, b)]

\* partition(a, b, comp)
partition(A, cmp, a, b) ==
    LET pivot == pick_pivot(A, cmp, a, b)
        r == unguarded_partition(iter_swap(A, pivot, a), cmp, a, b)
    IN  [r EXCEPT !.touched = @ \cup pick_pivot_reads(a, b) \cup {pivot, a}]

\* The number of positions of [a,b) at which x occurs in A.
Occurs(A, a, b, x) == Cardinality({i \in a..(b - 1) : A[i] = x})

\* std::sort(a, b, comp), by its contract: the arrays that agree with A
\* outside [a,b), hold a permutation of A's elements inside, and are sorted
\* there under comp (the order of equivalent elements is not specified).
std_sort(A, cmp, a, b) ==
    {B \in [DOMAIN A -> Elems] :
        /\ \A i \in DOMAIN A : (i < a \/ i >= b) => B[i] = A[i]
        /\ \A x \in Elems : Occurs(B, a, b, x) = Occurs(A, a, b, x)
        /\ \A i, j \in a..(b - 1) : i < j => ~comp(cmp, B[j], B[i])}

\* sortWork(n) = uint64(log(n) * n * 1.8 / log(2)), tabulated for n >= 1.
SortWorkTable == <<0, 3, 8, 14, 20, 27, 35, 43>>

\* The values sortWork(n) can return, as [hi, lo] standing for
\* hi * 2^63 + lo.  For n = 0 the product is NaN and its conversion to
\* uint64 is undefined: it yields 0 or 2^63 depending on the target.
sortWork(n) ==
    IF n = 0 THEN {[hi |-> 0, lo |-> 0], [hi |-> 1, lo |-> 0]}
    ELSE {[hi |-> 0, lo |-> SortWorkTable[n]]}

\* uint64 addition on [hi, lo] (lo stays far below 2^63 in the model).
AddU64(x, y) == [hi |-> (x.hi + y.hi) % 2, lo |-> x.lo + y.lo]

\* uint64 x < y
LessU64(x, y) == x.hi < y.hi \/ (x.hi = y.hi /\ x.lo < y.lo)

\* uint64 x - y, for y <= x.
SubU64(x, y) ==
    IF x.lo >= y.lo THEN [hi |-> x.hi - y.hi, lo |-> x.lo - y.lo]
    ELSE [hi |-> 1, lo |-> x.lo - y.lo]

\* The conversion of a uint64 to TPIE_OS_OFFSET (64 bits, signed), where it
\* keeps the value: a value with the top bit set would become negative.
TPIE_OS_OFFSET(u) == CASE u.hi = 0 -> u.lo

\* ---- the job system (job.h is not part of the sources: it is modelled
\* ---- from the specification's section 4.3 and 5)

\* A job that was just constructed: qsort_job(a, b, comp, parent, progress).
\* parent is the qsort_job member; jparent, children and bodydone belong to
\* the job base class.
qsort_job(a, b, parent) ==
    [a |-> a, b |-> b, parent |-> parent, jparent |-> null, children |-> 0,
     bodydone |-> FALSE, ondone |-> 0, deleted |-> FALSE]

\* The identity (address) of the job constructed for the range [a,b): no two
\* jobs of one sort are constructed for the same range.
JobId(a, b) == <<a, b>>

\* job::enqueue(parent): whether the submitter can proceed (it blocks while
\* the ready queue is at its hard cap).
enqueue_ready == Len(queue) < QueueCap

\* job::enqueue(parent) of job j: the job is registered in the ready queue
\* and the parent's outstanding-child counter is incremented.
job_enqueue(J, j, parent) ==
    LET J1 == [J EXCEPT ![j].jparent = parent]
    IN  IF parent # null
        THEN [J1 EXCEPT ![parent].children = J1[parent].children + 1]
        ELSE J1

\* The context of a worker thread that has just taken a job: workers maps
\* each job that a worker is executing to that worker's context (its program
\* position and the locals of operator()); the other workers of the pool
\* are idle.
BusyWorker == [pc |-> "body", pivot |-> 0,
               amount |-> [hi |-> 0, lo |-> 0], final |-> FALSE]

\* workers without the worker that was executing job j.
Release(j) == [k \in DOMAIN workers \ {j} |-> workers[k]]

\* An idle worker takes the most recently submitted job off the ready queue.
worker_dequeue ==
    /\ Cardinality(DOMAIN workers) < nworkers
    /\ queue # <<>>
    /\ workers' = workers @@ (queue[Len(queue)] :> BusyWorker)
    /\ queue' = SubSeq(queue, 1, Len(queue) - 1)
    /\ UNCHANGED <<arr, orig, compKind, nworkers, jobs, work_estimate,
                   total_work_estimate, prev_work_estimate, mutex, signalled,
                   dpc, rootDone, doneOrder>>
    /\ UNCHANGED cacheVars
    /\ UNCHANGED otherVars

\* ---- qsort_job

\* qsort_job::operator(): one test of the while condition, followed by the
\* partition of [a,b) (loop body) or by the final std::sort (loop exit).
qsort_body(j) ==
    /\ workers[j].pc = "body"
    /\ LET a == jobs[j].a
           b == jobs[j].b
       IN  IF b - a >= min_size
           THEN LET r == partition(arr, compKind, a, b)
                IN  /\ arr' = r.arr
                    /\ workers' = [workers EXCEPT
                          ![j].pc = "add_progress",
                          ![j].pivot = r.ret,
                          ![j].amount = [hi |-> 0, lo |-> b - a],
                          ![j].final = FALSE]
           ELSE /\ arr' \in std_sort(arr, compKind, a, b)
                /\ \E amount \in sortWork(b - a) :
                      workers' = [workers EXCEPT
                          ![j].pc = "add_progress",
                          ![j].amount = amount,
                          ![j].final = TRUE]
    /\ UNCHANGED <<orig, compKind, nworkers, jobs, queue, work_estimate,
                   total_work_estimate, prev_work_estimate, mutex, signalled,
                   dpc, rootDone, doneOrder>>
    /\ UNCHANGED cacheVars
    /\ UNCHANGED otherVars

\* cond.notify_one(): it reaches the driver when the driver is waiting.
notify_one == signalled \/ dpc = "waiting"

\* qsort_job::add_progress(amount), under progress.mutex.
add_progress(j) ==
    /\ workers[j].pc = "add_progress"
    /\ mutex = "free"
    /\ work_estimate' = AddU64(work_estimate, workers[j].amount)
    /\ signalled' = notify_one
    /\ workers' = [workers EXCEPT
          ![j].pc = IF workers[j].final THEN "finish" ELSE "spawn"]
    /\ UNCHANGED <<arr, orig, compKind, nworkers, jobs, queue,
                   total_work_estimate, prev_work_estimate, mutex,
                   dpc, rootDone, doneOrder>>
    /\ UNCHANGED cacheVars
    /\ UNCHANGED otherVars

\* Mutant: the new job is enqueued as its own parent, j->enqueue(j).
spawn_parent_self(this, j) == j

\* Mutant: the new job is enqueued without a parent, j->enqueue().
spawn_parent_none(this, j) == null

\* The parent handed to enqueue by the loop body of job this for its new
\* job j: j->enqueue(this).
spawn_parent(this, j) == this

\* Mutant: the parent goes on with [pivot, b), a = pivot.
qsort_spawn_keeping_pivot(this) ==
    /\ workers[this].pc = "spawn"
    /\ enqueue_ready
    /\ LET pivot == workers[this].pivot
           j == JobId(jobs[this].a, pivot)
           J1 == jobs @@ (j :> qsort_job(jobs[this].a, pivot, this))
           J2 == job_enqueue(J1, j, spawn_parent(this, j))
       IN  /\ jobs' = [J2 EXCEPT ![this].a = pivot]
           /\ queue' = Append(queue, j)
    /\ workers' = [workers EXCEPT ![this].pc = "body"]
    /\ UNCHANGED <<arr, orig, compKind, nworkers, work_estimate,
                   total_work_estimate, prev_work_estimate, mutex, signalled,
                   dpc, rootDone, doneOrder>>
    /\ UNCHANGED cacheVars
    /\ UNCHANGED otherVars

\* qsort_job::operator(), rest of the loop body:
\* j = new qsort_job(a, pivot, comp, this, progress); j->enqueue(this);
\* a = pivot + 1.
qsort_spawn(this) ==
    /\ workers[this].pc = "spawn"
    /\ enqueue_ready
    /\ LET pivot == workers[this].pivot
           j == JobId(jobs[this].a, pivot)
           J1 == jobs @@ (j :> qsort_job(jobs[this].a, pivot, this))
           J2 == job_enqueue(J1, j, spawn_parent(this, j))
       IN  /\ jobs' = [J2 EXCEPT ![this].a = pivot + 1]
           /\ queue' = Append(queue, j)
    /\ workers' = [workers EXCEPT ![this].pc = "body"]
    /\ UNCHANGED <<arr, orig, compKind, nworkers, work_estimate,
                   total_work_estimate, prev_work_estimate, mutex, signalled,
                   dpc, rootDone, doneOrder>>
    /\ UNCHANGED cacheVars
    /\ UNCHANGED otherVars

\* The worker has finished the body of job j: it checks the job's
\* outstanding-child counter and finalizes the job when it is zero.
job_finish(j) ==
    /\ workers[j].pc = "finish"
    /\ jobs' = [jobs EXCEPT ![j].bodydone = TRUE]
    /\ workers' = IF jobs[j].children = 0
                  THEN [workers EXCEPT ![j].pc = "on_done"]
                  ELSE Release(j)
    /\ UNCHANGED <<arr, orig, compKind, nworkers, queue, work_estimate,
                   total_work_estimate, prev_work_estimate, mutex, signalled,
                   dpc, rootDone, doneOrder>>
    /\ UNCHANGED cacheVars
    /\ UNCHANGED otherVars

\* qsort_job::on_done(): a child is handed to its parent's child_done, which
\* deletes it; the root sets work_estimate to the total under the mutex and
\* notifies the driver.
on_done(j) ==
    /\ workers[j].pc = "on_done"
    /\ IF jobs[j].parent # null
       THEN /\ jobs' = [jobs EXCEPT ![j].deleted = TRUE,
                                    ![j].ondone = jobs[j].ondone + 1]
            /\ UNCHANGED <<work_estimate, signalled>>
       ELSE /\ mutex = "free"
            /\ work_estimate' = total_work_estimate
            /\ signalled' = notify_one
            /\ jobs' = [jobs EXCEPT ![j].ondone = jobs[j].ondone + 1]
    /\ doneOrder' = Append(doneOrder, j)
    /\ workers' = [workers EXCEPT ![j].pc = "job_done"]
    /\ UNCHANGED <<arr, orig, compKind, nworkers, queue,
                   total_work_estimate, prev_work_estimate, mutex,
                   dpc, rootDone>>
    /\ UNCHANGED cacheVars
    /\ UNCHANGED otherVars

\* After on_done the worker signals completion and decrements the parent's
\* counter; when that brings it to zero and the parent's body has completed,
\* the worker finalizes the parent in turn.
job_done(j) ==
    /\ workers[j].pc = "job_done"
    /\ LET p == jobs[j].jparent
       IN  IF p = null
           THEN /\ rootDone' = (rootDone \/ jobs[j].parent = null)
                /\ workers' = Release(j)
                /\ UNCHANGED jobs
           ELSE /\ jobs' = [jobs EXCEPT ![p].children = jobs[p].children - 1]
                /\ workers' =
                      IF jobs[p].children = 1 /\ jobs[p].bodydone
                      THEN Release(j)
                           @@ (p :> [BusyWorker EXCEPT !.pc = "on_done"])
                      ELSE Release(j)
                /\ UNCHANGED rootDone
    /\ UNCHANGED <<arr, orig, compKind, nworkers, queue, work_estimate,
                   total_work_estimate, prev_work_estimate, mutex, signalled,
                   dpc, doneOrder>>
    /\ UNCHANGED cacheVars
    /\ UNCHANGED otherVars

\* No cache is under observation.
NoCache ==
    /\ capacity_ = 0 /\ assoc_ = 0 /\ sets_ = 0 /\ pdata_ = <<>>
    /\ crashed = FALSE /\ op = OpRec("new", 0, NoVal, TRUE, NoVal)
    /\ wb = <<>> /\ W = "null" /\ wlog = <<>> /\ hist = <<>>
    /\ histWindow = 0
    /\ thr = <<>> /\ start = [p |-> <<>>, n |-> 0]

\* ------------------------------------------------- progress_indicator_base

\* TPIE_OS_OFFSET values are integers here; the model stays far from the
\* ends of their 64 bits.  Arguments range over -1..MaxOffset, tick
\* readings over 0..MaxTick, and an indicator is stepped while its counters
\* stay within MaxCurrent of zero.
MaxOffset == 1
MaxTick == 4
MaxCurrent == 3
MaxSteps == 6

Offsets == (-1)..MaxOffset

\* m_threshold, the value compute_threshold() left in it.
m_threshold == 1

std_min(x, y) == IF y < x THEN y ELSE x
std_max(x, y) == IF x < y THEN y ELSE x

\* getticks(): the readings the cycle counter can give once m_lastUpdate
\* was read from it (a reading that causes no refresh leaves no trace).
getticks(p) == p.m_lastUpdate..MaxTick

\* elapsed(t1, t0): the distance of two readings.
elapsed(t1, t0) == t1 - t0

\* The constructor, with t the reading of getticks().
progress_indicator_base(minRange, maxRange, stepValue, t) ==
    [m_minRange |-> std_min(minRange, maxRange),
     m_maxRange |-> std_max(minRange, maxRange),
     m_stepValue |->
         std_max(std_min(stepValue, std_max(minRange, maxRange)
                                        - std_min(minRange, maxRange)), 1),
     m_current |-> 0,
     m_percentageChecker |-> 0,
     m_percentageValue |-> 0,
     m_percentageUnit |-> 0,
     m_lastUpdate |-> t,
     m_predictor |-> 0]

reset(p) == [p EXCEPT !.m_current = p.m_minRange]

set_min_range(p, minRange) == reset([p EXCEPT !.m_minRange = minRange])

set_max_range(p, maxRange) == reset([p EXCEPT !.m_maxRange = maxRange])

set_step_value(p, stepValue) == [p EXCEPT !.m_stepValue = stepValue]

set_range(p, minRange, maxRange, stepValue) ==
    LET p1 == set_min_range(p, std_min(minRange, maxRange))
        p2 == set_max_range(p1, std_max(minRange, maxRange))
        p3 == set_step_value(p2,
                  std_max(std_min(stepValue, p2.m_maxRange - p2.m_minRange),
                          1))
    IN  reset([p3 EXCEPT !.m_percentageValue = 0,
                         !.m_percentageChecker = 0,
                         !.m_percentageUnit = 0])

\* percentageUnit is an unsigned short.
set_percentage_range(p, minRange, maxRange, percentageUnit) ==
    LET localMin == std_min(minRange, maxRange)
        localMax == std_max(minRange, maxRange)
        p1 == set_step_value(p, 1)
        unit == std_max(percentageUnit, 1)
        value == (localMax - localMin) \div unit
        p2 == IF value > 0
              THEN set_max_range(
                       set_min_range([p1 EXCEPT !.m_percentageUnit = unit,
                                                !.m_percentageValue = value],
                                     0),
                       unit)
              ELSE [set_max_range(set_min_range(p1, localMin), localMax)
                       EXCEPT !.m_percentageValue = 1,
                              !.m_percentageUnit =
                                  (localMax - localMin) % 65536]
    IN  reset([p2 EXCEPT !.m_percentageChecker = 0])

\* refresh() of an indicator that records the reading at which each update
\* was displayed; the log keeps the latest two.
refresh(log, t) ==
    IF Len(log) < 2 THEN Append(log, t) ELSE <<log[2], t>>

\* Mutant: step refreshes at every call.
step_unthrottled(p, n, t) ==
    /\ pi' = [p EXCEPT !.m_current = @ + n, !.m_lastUpdate = t]
    /\ shown' = refresh(shown, t)

\* Mutant: step subtracts the amount.
step_backwards(p, n, t) ==
    IF elapsed(t, p.m_lastUpdate) > m_threshold
    THEN /\ pi' = [p EXCEPT !.m_current = @ - n, !.m_lastUpdate = t]
         /\ shown' = refresh(shown, t)
    ELSE /\ pi' = [p EXCEPT !.m_current = @ - n]
         /\ shown' = shown

\* step(n) on the indicator in state p, with t the reading of getticks().
step(p, n, t) ==
    IF elapsed(t, p.m_lastUpdate) > m_threshold
    THEN /\ pi' = [p EXCEPT !.m_current = @ + n, !.m_lastUpdate = t]
         /\ shown' = refresh(shown, t)
    ELSE /\ pi' = [p EXCEPT !.m_current = @ + n]
         /\ shown' = shown

\* Mutant: the indicator advances although it has reached m_maxRange.
step_percentage_unbounded(t) ==
    LET n == pi.m_percentageChecker + 1 IN
    IF pi.m_percentageValue = 0
    THEN \/ fpe' = TRUE /\ UNCHANGED <<pi, shown>>
         \/ /\ fpe' = fpe
            /\ pi' = [pi EXCEPT !.m_percentageChecker = n]
            /\ shown' = shown
    ELSE LET p == [pi EXCEPT !.m_percentageChecker =
                                 n % pi.m_percentageValue]
         IN  /\ fpe' = fpe
             /\ IF p.m_percentageChecker = 0
                THEN step(p, p.m_stepValue, t)
                ELSE pi' = p /\ shown' = shown

\* step_percentage().  With m_percentageValue = 0 the remainder is undefined:
\* the process is stopped by the division trap, or the division yields the
\* dividend and the call goes on.
step_percentage(t) ==
    LET n == pi.m_percentageChecker + 1 IN
    IF pi.m_percentageValue = 0
    THEN \/ fpe' = TRUE /\ UNCHANGED <<pi, shown>>
         \/ /\ fpe' = fpe
            /\ pi' = [pi EXCEPT !.m_percentageChecker = n]
            /\ shown' = shown
    ELSE LET p == [pi EXCEPT !.m_percentageChecker =
                                 n % pi.m_percentageValue]
         IN  /\ fpe' = fpe
             /\ IF p.m_percentageChecker = 0 /\ p.m_current < p.m_maxRange
                THEN step(p, p.m_stepValue, t)
                ELSE pi' = p /\ shown' = shown

\* init(range, step), with t the reading of getticks().
init(range, stepValue, t) ==
    LET p == IF range # 0 THEN set_range(pi, 0, range, stepValue) ELSE pi
    IN  /\ pi' = [p EXCEPT !.m_current = p.m_minRange, !.m_lastUpdate = t]
        /\ shown' = refresh(shown, t)

\* done() of the base class.
done == UNCHANGED <<pi, shown>>

\* estimate_remaining_time(progress) of the predictor, for the fraction
\* num / den.
estimate_remaining_time(num, den) == "estimate"

\* estimated_remaining_time(): the string returned.
estimated_remaining_time(p) ==
    IF p.m_maxRange - p.m_minRange = 0 \/ p.m_predictor = 0
       \/ p.m_current < 0
    THEN ""
    ELSE estimate_remaining_time(p.m_current, p.m_maxRange - p.m_minRange)

\* ---- the calls of a client that owns an indicator

Usable == pi # null /\ ~fpe /\ dpc = "none"

ProgressFrame ==
    /\ UNCHANGED cacheVars
    /\ UNCHANGED sortVars
    /\ UNCHANGED streamVars
    /\ UNCHANGED pass
    /\ UNCHANGED deviceVars
    /\ UNCHANGED part

call_set_range(minRange, maxRange, stepValue) ==
    /\ Usable
    /\ pi' = set_range(pi, minRange, maxRange, stepValue)
    /\ UNCHANGED returned
    /\ UNCHANGED <<shown, fpe>>
    /\ nsteps' = null
    /\ ProgressFrame

call_set_percentage_range(minRange, maxRange, percentageUnit) ==
    /\ Usable
    /\ pi' = set_percentage_range(pi, minRange, maxRange, percentageUnit)
    /\ UNCHANGED returned
    /\ UNCHANGED <<shown, fpe>>
    /\ nsteps' = <<0>>
    /\ ProgressFrame

call_init(range, stepValue) ==
    /\ Usable
    /\ \E t \in getticks(pi) : init(range, stepValue, t)
    /\ UNCHANGED returned
    /\ UNCHANGED fpe
    /\ nsteps' = null
    /\ ProgressFrame

call_step(n) ==
    /\ Usable
    /\ pi.m_current + n \in (-MaxCurrent)..MaxCurrent
    /\ \E t \in getticks(pi) : step(pi, n, t)
    /\ UNCHANGED returned
    /\ UNCHANGED fpe
    /\ nsteps' = null
    /\ ProgressFrame

\* step()
call_step_default ==
    /\ Usable
    /\ pi.m_current + pi.m_stepValue \in (-MaxCurrent)..MaxCurrent
    /\ \E t \in getticks(pi) : step(pi, pi.m_stepValue, t)
    /\ UNCHANGED returned
    /\ UNCHANGED fpe
    /\ nsteps' = null
    /\ ProgressFrame

call_step_percentage ==
    /\ Usable
    /\ pi.m_percentageChecker < MaxCurrent
    /\ nsteps # null => nsteps[1] < MaxSteps
    /\ pi.m_current + pi.m_stepValue \in (-MaxCurrent)..MaxCurrent
    /\ \E t \in getticks(pi) : step_percentage(t)
    /\ UNCHANGED returned
    /\ nsteps' = IF nsteps # null /\ ~fpe' THEN <<nsteps[1] + 1>> ELSE null
    /\ ProgressFrame

call_reset ==
    /\ Usable
    /\ pi' = reset(pi)
    /\ UNCHANGED returned
    /\ UNCHANGED <<shown, fpe>>
    /\ nsteps' = null
    /\ ProgressFrame

call_done ==
    /\ Usable
    /\ done
    /\ UNCHANGED returned
    /\ UNCHANGED fpe
    /\ nsteps' = null
    /\ ProgressFrame

call_estimated_remaining_time ==
    /\ Usable
    /\ returned' = estimated_remaining_time(pi)
    /\ UNCHANGED <<pi, shown, fpe>>
    /\ nsteps' = null
    /\ ProgressFrame

\* An indicator was constructed by its owner.
InitProgress ==
    /\ NoCache
    /\ NoSort
    /\ NoStream
    /\ NoDevice
    /\ NoCall
    /\ \E minRange \in Offsets, maxRange \in Offsets, stepValue \in Offsets,
          t \in {0} :
          pi = progress_indicator_base(minRange, maxRange, stepValue, t)
    /\ shown = <<>>
    /\ fpe = FALSE
    /\ returned = ""

NextProgress ==
    \/ \E minRange \in Offsets, maxRange \in Offsets, stepValue \in Offsets :
          call_set_range(minRange, maxRange, stepValue)
    \/ \E minRange \in Offsets, maxRange \in Offsets, unit \in 0..MaxOffset :
          call_set_percentage_range(minRange, maxRange, unit)
    \/ \E range \in Offsets, stepValue \in Offsets :
          call_init(range, stepValue)
    \/ \E n \in Offsets : call_step(n)
    \/ call_step_default
    \/ call_step_percentage
    \/ call_reset
    \/ call_done
    \/ call_estimated_remaining_time

SpecProgress == InitProgress /\ [][NextProgress]_vars

\* ------------------------------------------------- parallel sort, driver

\* ---- parallel_sort_impl::operator() (the driver)

\* The master job of the current sort.
master == JobId(0, Size(arr))

\* Mutant: a range of exactly min_size elements is sorted in place too.
sort_start_inclusive ==
    /\ dpc = "start"
    /\ work_estimate' = [hi |-> 0, lo |-> 0]
    /\ total_work_estimate' \in sortWork(Size(arr))
    /\ IF Size(arr) <= min_size
       THEN /\ arr' \in std_sort(arr, compKind, 0, Size(arr))
            /\ dpc' = "returned"
            /\ UNCHANGED <<jobs, queue>>
       ELSE /\ enqueue_ready
            /\ jobs' = job_enqueue(master :> qsort_job(0, Size(arr), null),
                                    master, null)
            /\ queue' = Append(queue, master)
            /\ dpc' = "lock"
            /\ UNCHANGED arr
    /\ IF pi = null
       THEN UNCHANGED <<pi, shown>>
       ELSE \E t \in getticks(pi) :
               init(TPIE_OS_OFFSET(total_work_estimate'), 1, t)
    /\ UNCHANGED <<orig, compKind, nworkers, workers, prev_work_estimate,
                   mutex, signalled, rootDone, doneOrder>>
    /\ UNCHANGED <<fpe, returned, pass>>
    /\ UNCHANGED deviceVars
    /\ UNCHANGED part
    /\ nsteps' = IF pi' = pi THEN nsteps ELSE null
    /\ UNCHANGED cacheVars
    /\ UNCHANGED streamVars

\* Entry: the estimates are set and the indicator, if any, is initialised
\* with the total; a range below min_size is sorted in place and the call
\* returns (after done(), which changes nothing), otherwise the master job is
\* created and enqueued.
sort_start ==
    /\ dpc = "start"
    /\ work_estimate' = [hi |-> 0, lo |-> 0]
    /\ total_work_estimate' \in sortWork(Size(arr))
    /\ IF Size(arr) < min_size
       THEN /\ arr' \in std_sort(arr, compKind, 0, Size(arr))
            /\ dpc' = "returned"
            /\ UNCHANGED <<jobs, queue>>
       ELSE /\ enqueue_ready
            /\ jobs' = job_enqueue(master :> qsort_job(0, Size(arr), null),
                                    master, null)
            /\ queue' = Append(queue, master)
            /\ dpc' = "lock"
            /\ UNCHANGED arr
    /\ IF pi = null
       THEN UNCHANGED <<pi, shown>>
       ELSE \E t \in getticks(pi) :
               init(TPIE_OS_OFFSET(total_work_estimate'), 1, t)
    /\ UNCHANGED <<orig, compKind, nworkers, workers, prev_work_estimate,
                   mutex, signalled, rootDone, doneOrder>>
    /\ UNCHANGED <<fpe, returned, pass>>
    /\ UNCHANGED deviceVars
    /\ UNCHANGED part
    /\ nsteps' = IF pi' = pi THEN nsteps ELSE null
    /\ UNCHANGED cacheVars
    /\ UNCHANGED streamVars

\* boost::mutex::scoped_lock lock(progress.mutex)
sort_lock ==
    /\ dpc = "lock"
    /\ mutex = "free"
    /\ mutex' = "driver"
    /\ dpc' = "test"
    /\ UNCHANGED <<arr, orig, compKind, nworkers, jobs, queue, workers,
                   work_estimate, total_work_estimate, prev_work_estimate,
                   signalled, rootDone, doneOrder>>
    /\ UNCHANGED cacheVars
    /\ UNCHANGED otherVars

\* One test of the progress loop, with the mutex held: either the body (the
\* indicator, if any, is stepped by the advance of work_estimate) up to
\* cond.wait, which releases the mutex and suspends the driver, or the exit
\* and lock.unlock().
sort_test ==
    /\ dpc = "test"
    /\ IF LessU64(work_estimate, total_work_estimate)
       THEN /\ IF pi # null /\ LessU64(prev_work_estimate, work_estimate)
               THEN \E t \in getticks(pi) :
                       step(pi, TPIE_OS_OFFSET(SubU64(work_estimate,
                                                      prev_work_estimate)),
                            t)
               ELSE UNCHANGED <<pi, shown>>
            /\ prev_work_estimate' = work_estimate
            /\ dpc' = "waiting"
            /\ signalled' = FALSE
       ELSE /\ dpc' = "join"
            /\ UNCHANGED <<prev_work_estimate, signalled, pi, shown>>
    /\ mutex' = "free"
    /\ UNCHANGED <<arr, orig, compKind, nworkers, jobs, queue, workers,
                   work_estimate, total_work_estimate, rootDone, doneOrder>>
    /\ UNCHANGED <<fpe, returned, pass>>
    /\ UNCHANGED deviceVars
    /\ UNCHANGED part
    /\ nsteps' = IF pi' = pi THEN nsteps ELSE null
    /\ UNCHANGED cacheVars
    /\ UNCHANGED streamVars

\* cond.wait returns: the driver was notified and has re-acquired the mutex.
sort_wake ==
    /\ dpc = "waiting"
    /\ signalled
    /\ mutex = "free"
    /\ mutex' = "driver"
    /\ signalled' = FALSE
    /\ dpc' = "test"
    /\ UNCHANGED <<arr, orig, compKind, nworkers, jobs, queue, workers,
                   work_estimate, total_work_estimate, prev_work_estimate,
                   rootDone, doneOrder>>
    /\ UNCHANGED cacheVars
    /\ UNCHANGED otherVars

\* master->join(); delete master; the indicator, if any, is told done();
\* return.
sort_join ==
    /\ dpc = "join"
    /\ rootDone
    /\ jobs' = [jobs EXCEPT ![master].deleted = TRUE]
    /\ done
    /\ dpc' = "returned"
    /\ UNCHANGED <<arr, orig, compKind, nworkers, queue, workers,
                   work_estimate, total_work_estimate, prev_work_estimate,
                   mutex, signalled, rootDone, doneOrder>>
    /\ UNCHANGED <<fpe, returned, pass>>
    /\ UNCHANGED deviceVars
    /\ UNCHANGED part
    /\ nsteps' = IF pi' = pi THEN nsteps ELSE null
    /\ UNCHANGED cacheVars
    /\ UNCHANGED streamVars

\* parallel_sort is called on a range of up to MaxN elements, with one of the
\* comparators, no indicator and a pool of 1..MaxWorkers workers, all idle.
InitSort ==
    /\ NoCache
    /\ NoStream
    /\ NoDevice
    /\ NoCall
    /\ NoProgress
    /\ \E n \in 0..MaxN : arr \in [0..(n - 1) -> Elems]
    /\ orig = arr
    /\ compKind \in {"less", "half"}
    /\ nworkers \in 1..MaxWorkers
    /\ workers = <<>>
    /\ jobs = <<>> /\ queue = <<>>
    /\ work_estimate = [hi |-> 0, lo |-> 0]
    /\ total_work_estimate = [hi |-> 0, lo |-> 0]
    /\ prev_work_estimate = [hi |-> 0, lo |-> 0]
    /\ mutex = "free" /\ signalled = FALSE /\ dpc = "start"
    /\ rootDone = FALSE /\ doneOrder = <<>>
    /\ pass = 0

\* The steps of the worker that is executing job j.
Worker(j) ==
    \/ qsort_body(j)
    \/ add_progress(j)
    \/ qsort_spawn(j)
    \/ job_finish(j)
    \/ on_done(j)
    \/ job_done(j)

Driver ==
    \/ sort_start
    \/ sort_lock
    \/ sort_test
    \/ sort_wake
    \/ sort_join

NextSort ==
    \/ Driver
    \/ worker_dequeue
    \/ \E j \in DOMAIN workers : Worker(j)

SpecSort == InitSort /\ [][NextSort]_vars

\* The identities a job can have.
JobIds == {j \in (0..MaxN) \X (0..MaxN) : j[1] <= j[2]}

\* The same, with every thread scheduled fairly.
SpecSortFair ==
    /\ SpecSort
    /\ WF_vars(Driver)
    /\ WF_vars(worker_dequeue)
    /\ \A j \in JobIds : WF_vars(j \in DOMAIN workers /\ Worker(j))

\* parallel_sort_impl(p): the sort is called with an indicator its caller
\* constructed, on a range of 1..MaxN elements.  (The estimate of the empty
\* range is the undefined conversion of a NaN; it is left to SpecSort.)
InitSortProgress ==
    /\ NoCache
    /\ NoStream
    /\ NoDevice
    /\ NoCall
    /\ \E minRange \in Offsets, maxRange \in Offsets, stepValue \in Offsets :
          pi = progress_indicator_base(minRange, maxRange, stepValue, 0)
    /\ shown = <<>>
    /\ fpe = FALSE
    /\ returned = ""
    /\ \E n \in 1..MaxN : arr \in [0..(n - 1) -> Elems]
    /\ orig = arr
    /\ compKind \in {"less", "half"}
    /\ nworkers \in 1..MaxWorkers
    /\ workers = <<>>
    /\ jobs = <<>> /\ queue = <<>>
    /\ work_estimate = [hi |-> 0, lo |-> 0]
    /\ total_work_estimate = [hi |-> 0, lo |-> 0]
    /\ prev_work_estimate = [hi |-> 0, lo |-> 0]
    /\ mutex = "free" /\ signalled = FALSE /\ dpc = "start"
    /\ rootDone = FALSE /\ doneOrder = <<>>
    /\ pass = 0

SpecSortProgress == InitSortProgress /\ [][NextSort]_vars

\* The caller sorts the range it got back once more, with the same
\* comparator and the same pool, now idle.
sort_again ==
    /\ dpc = "returned"
    /\ pass = 0
    /\ workers = <<>> /\ queue = <<>>
    /\ pass' = 1
    /\ orig' = arr
    /\ jobs' = <<>>
    /\ prev_work_estimate' = [hi |-> 0, lo |-> 0]
    /\ signalled' = FALSE
    /\ rootDone' = FALSE
    /\ doneOrder' = <<>>
    /\ dpc' = "start"
    /\ UNCHANGED <<arr, compKind, nworkers, queue, workers, work_estimate,
                   total_work_estimate, mutex>>
    /\ UNCHANGED cacheVars
    /\ UNCHANGED streamVars
    /\ UNCHANGED progressVars
    /\ UNCHANGED deviceVars
    /\ UNCHANGED <<part, nsteps>>

NextResort ==
    \/ NextSort
    \/ sort_again

\* parallel_sort, and parallel_sort once more on its result.
SpecResort == InitSort /\ [][NextResort]_vars

\* An indicator in the hands of its owner, or of a parallel sort.
SpecIndicator ==
    (InitProgress \/ InitSortProgress) /\ [][NextProgress \/ NextSort]_vars

\* ------------------------------------------- claims about parallel_sort

\* For all positions i < j, comp(A[j], A[i]) is false.
Sorted(A, cmp) ==
    \A i, j \in DOMAIN A : i < j => ~comp(cmp, A[j], A[i])

\* A holds the elements of B, each as often as B does.
Permutation(A, B) ==
    /\ DOMAIN A = DOMAIN B
    /\ \A x \in Elems : Occurs(A, 0, Size(A), x) = Occurs(B, 0, Size(B), x)

\* C5: when parallel_sort has returned, on the sequential path as on the
\* job-based path and whatever the interleaving of the workers was, the
\* range is sorted under comp and is a permutation of its original contents.
C5_SortedPermutation ==
    dpc = "returned" => Sorted(arr, compKind) /\ Permutation(arr, orig)

\* C5 witness: a sort that took the job-based path with three jobs or more
\* has returned a range that is not in its original order.
C5_Witness ==
    /\ dpc = "returned"
    /\ Cardinality(DOMAIN jobs) >= 3
    /\ arr # orig

C7_OnDoneStep ==
    \A j \in DOMAIN jobs :
        jobs'[j].ondone # jobs[j].ondone =>
            /\ jobs[j].ondone = 0 /\ jobs'[j].ondone = 1
            /\ jobs[j].bodydone
            /\ jobs[j].children = 0

\* ... and when the sort has returned it has been invoked for every job that
\* was enqueued: as many on_done invocations as enqueues.
C7_AtReturn ==
    dpc = "returned" =>
        /\ \A j \in DOMAIN jobs : jobs[j].ondone = 1
        /\ Len(doneOrder) = Cardinality(DOMAIN jobs)

C7_OnDoneOnce == [][C7_OnDoneStep]_vars /\ []C7_AtReturn

\* C7 witness: the on_done of a child has run while the body of its parent
\* is still running and about to spawn another child.
C7_Witness ==
    \E j \in DOMAIN jobs :
        /\ jobs[j].ondone = 1
        /\ jobs[j].parent # null
        /\ jobs[j].parent \in DOMAIN workers
        /\ workers[jobs[j].parent].pc = "spawn"

\* The position of job j in the order in which on_done ran.
DonePos(j) == CHOOSE i \in 1..Len(doneOrder) : doneOrder[i] = j

\* C8: the on_done of a job runs before the on_done of its parent; the
\* on_done of the root is the last one of the job tree; and join() on the
\* root, hence parallel_sort, returns only after it.
C8_CompletionOrder ==
    /\ \A j \in DOMAIN jobs :
          LET p == jobs[j].parent
          IN  (p # null /\ jobs[p].ondone > 0) =>
                  jobs[j].ondone > 0 /\ DonePos(j) < DonePos(p)
    /\ (jobs # <<>> /\ jobs[master].ondone > 0) =>
          /\ doneOrder[Len(doneOrder)] = master
          /\ \A j \in DOMAIN jobs : jobs[j].ondone > 0
    /\ (jobs # <<>> /\ dpc = "returned") => jobs[master].ondone > 0

\* C8 witness: the sort has returned after a job, its child and the child of
\* that child have completed.
C8_Witness ==
    /\ dpc = "returned"
    /\ \E j \in DOMAIN jobs :
          /\ jobs[j].parent # null
          /\ jobs[jobs[j].parent].parent # null

\* ----------------------------------------------------------------- stream
\* The stream classes are not part of the sources (only a caller is, the
\* fill and scan of test_ami_matrix): the stream is modelled from sections 3
\* and 4.1 of the specification.

\* Bounds of the stream model: records per block, blocks resident per
\* stream, and the longest sequence written.
BlockSize == 2
ResidentBlocks == 2
MaxItems == 5

\* The records a caller writes; 0 is what a zero-filled hole holds.
Records == 1..NumVals

\* The block that holds the record at an offset.
BlockOf(offset) == offset \div BlockSize

\* Block b as the file holds it, zero-filled behind the end of the file.
FileBlock(data, b) ==
    [i \in 0..(BlockSize - 1) |->
        IF b * BlockSize + i < Len(data) THEN data[b * BlockSize + i + 1]
        ELSE 0]

\* The records of the file after block b was written to it.
WriteBlock(data, b, blk) ==
    LET n == IF Len(data) > (b + 1) * BlockSize THEN Len(data)
             ELSE (b + 1) * BlockSize
    IN  [i \in 1..n |->
            IF BlockOf(i - 1) = b THEN blk[(i - 1) % BlockSize]
            ELSE IF i <= Len(data) THEN data[i] ELSE 0]

\* The records of the file after the dirty blocks among bs were written.
RECURSIVE WriteDirty(_, _, _)
WriteDirty(data, blocks, bs) ==
    IF bs = {} THEN data
    ELSE LET b == CHOOSE x \in bs : TRUE
             d == IF blocks[b].dirty
                  THEN WriteBlock(data, b, blocks[b].data)
                  ELSE data
         IN  WriteDirty(d, blocks, bs \ {b})

\* Mutant: flush rewrites the header and leaves the dirty blocks in core.
flush_blocks_header_only(f, s) == f.data

\* flush: every dirty in-core block is written to the file.
flush_blocks(f, s) == WriteDirty(f.data, s.blocks, DOMAIN s.blocks)

\* The stream and the file once block b is in core: a resident block stays;
\* otherwise, with ResidentBlocks blocks resident, the oldest one is evicted
\* (cyclic replacement) and written to the file when dirty, and b is loaded.
Fetch(f, s, b) ==
    IF b \in DOMAIN s.blocks THEN [file |-> f, strm |-> s]
    ELSE LET full == Len(s.order) >= ResidentBlocks
             victim == s.order[1]
             data1 == IF full /\ s.blocks[victim].dirty
                      THEN WriteBlock(f.data, victim, s.blocks[victim].data)
                      ELSE f.data
             kept == IF full THEN DOMAIN s.blocks \ {victim}
                     ELSE DOMAIN s.blocks
             blocks1 == [x \in kept \cup {b} |->
                            IF x = b
                            THEN [data |-> FileBlock(data1, b),
                                  dirty |-> FALSE]
                            ELSE s.blocks[x]]
             order1 == Append(IF full THEN Tail(s.order) ELSE s.order, b)
         IN  [file |-> [f EXCEPT !.data = data1],
              strm |-> [s EXCEPT !.blocks = blocks1, !.order = order1]]

\* A stream that was just opened in the given mode on a file of n records.
Opened(mode, n) ==
    [mode |-> mode, length |-> n, offset |-> 0, blocks |-> <<>>,
     order |-> <<>>]

StreamFrame ==
    /\ UNCHANGED cacheVars
    /\ UNCHANGED sortVars
    /\ UNCHANGED progressVars
    /\ UNCHANGED pass
    /\ UNCHANGED deviceVars
    /\ UNCHANGED <<part, nsteps>>

\* open(path, write-only): the file is truncated.
open_write ==
    /\ strm.mode \in {"none", "closed"}
    /\ file' = [length |-> 0, data |-> <<>>]
    /\ strm' = Opened("write", 0)
    /\ written' = <<>>
    /\ readback' = <<>>
    /\ StreamFrame

\* write_item(v): the record is stored at the current offset in its block,
\* which becomes dirty; a write behind the end extends the stream.
write_item(v) ==
    /\ strm.mode = "write"
    /\ Len(written) < MaxItems
    /\ LET r == Fetch(file, strm, BlockOf(strm.offset))
           b == BlockOf(strm.offset)
           blk == [r.strm.blocks[b].data EXCEPT
                      ![strm.offset % BlockSize] = v]
       IN  /\ file' = r.file
           /\ strm' = [r.strm EXCEPT
                         !.blocks[b] = [data |-> blk, dirty |-> TRUE],
                         !.offset = strm.offset + 1,
                         !.length = IF strm.offset + 1 > strm.length
                                    THEN strm.offset + 1 ELSE strm.length]
    /\ written' = Append(written, v)
    /\ UNCHANGED readback
    /\ StreamFrame

\* flush: the dirty blocks are written and the header is rewritten.
stream_flush ==
    /\ strm.mode = "write"
    /\ file' = [length |-> strm.length, data |-> flush_blocks(file, strm)]
    /\ strm' = [strm EXCEPT !.blocks =
                   [b \in DOMAIN strm.blocks |->
                       [strm.blocks[b] EXCEPT !.dirty = FALSE]]]
    /\ UNCHANGED <<written, readback>>
    /\ StreamFrame

\* close: a stream open for writing is flushed; the stream is released and
\* its file retained.
stream_close ==
    /\ strm.mode \in {"write", "read"}
    /\ file' = IF strm.mode = "write"
               THEN [length |-> strm.length,
                     data |-> flush_blocks(file, strm)]
               ELSE file
    /\ strm' = [mode |-> "closed"]
    /\ UNCHANGED <<written, readback>>
    /\ StreamFrame

\* open(path, read-only): the length is the one recorded in the header.
open_read ==
    /\ strm.mode = "closed"
    /\ strm' = Opened("read", file.length)
    /\ readback' = <<>>
    /\ UNCHANGED <<file, written>>
    /\ StreamFrame

\* The results of read_item.
Item(v) == [eos |-> FALSE, v |-> v]
EndOfStream == [eos |-> TRUE, v |-> 0]

\* read_item(): the record at the current offset, or end-of-stream at the
\* end; the next block is prefetched when the last record of a block is read.
read_item ==
    /\ strm.mode = "read"
    /\ Len(readback) < MaxItems + 2
    /\ IF strm.offset >= strm.length
       THEN /\ readback' = Append(readback, EndOfStream)
            /\ UNCHANGED <<file, strm>>
       ELSE LET b == BlockOf(strm.offset)
                r == Fetch(file, strm, b)
                v == r.strm.blocks[b].data[strm.offset % BlockSize]
                p == IF strm.offset % BlockSize = BlockSize - 1
                        /\ (b + 1) * BlockSize < strm.length
                     THEN Fetch(r.file, r.strm, b + 1)
                     ELSE r
            IN  /\ readback' = Append(readback, Item(v))
                /\ file' = p.file
                /\ strm' = [p.strm EXCEPT !.offset = strm.offset + 1]
    /\ UNCHANGED written
    /\ StreamFrame

\* A new temporary stream, owned by one caller.
InitStream ==
    /\ NoCache
    /\ NoSort
    /\ NoStream
    /\ NoDevice
    /\ NoCall
    /\ NoProgress

NextStream ==
    \/ open_write
    \/ \E v \in Records : write_item(v)
    \/ stream_flush
    \/ stream_close
    \/ open_read
    \/ read_item

SpecStream == InitStream /\ [][NextStream]_vars

\* C14: once a stream that was written w1..wn is closed and reopened for
\* reading, its length is n, the first n reads return w1..wn in order and
\* every later read returns end-of-stream.
C14_RoundTrip ==
    strm.mode = "read" =>
        /\ strm.length = Len(written)
        /\ \A i \in 1..Len(readback) :
              readback[i] = IF i <= Len(written) THEN Item(written[i])
                            ELSE EndOfStream

\* C14 witness: more records than the resident blocks hold were written and
\* all read back, followed by two reads at the end of the stream.
C14_Witness ==
    /\ strm.mode = "read"
    /\ Len(written) > BlockSize * ResidentBlocks
    /\ Len(readback) = Len(written) + 2

\* ------------------------------------- claims about the progress indicator

\* C15: when a parallel sort that was given a progress indicator has
\* returned, on the sequential path as on the job-based path, the current
\* position of the indicator equals the total work estimate it was
\* initialised with, which is its upper bound.
C15_FinalCurrent ==
    (dpc = "returned" /\ pi # null) =>
        /\ pi.m_current = TPIE_OS_OFFSET(total_work_estimate)
        /\ pi.m_current = pi.m_maxRange

\* The driver of a parallel sort passes an amount to step.
DriverSteps ==
    /\ pi # null
    /\ dpc = "test"
    /\ LessU64(work_estimate, total_work_estimate)
    /\ LessU64(prev_work_estimate, work_estimate)
    /\ sort_test

\* The amount is positive as a TPIE_OS_OFFSET: not zero, top bit clear.
DriverAmountPositive ==
    LET amount == SubU64(work_estimate, prev_work_estimate)
    IN  amount.hi = 0 /\ amount.lo > 0

\* This step lowers the current position of the indicator.
Lowers == pi # null /\ pi'.m_current < pi.m_current

C16_Step ==
    /\ Lowers => ~ \/ \E n \in Offsets : n >= 0 /\ call_step(n)
                   \/ call_step_default
                   \/ call_step_percentage
    /\ DriverSteps
          => DriverAmountPositive /\ pi'.m_current > pi.m_current

C16_OriginalStep ==
    /\ Lowers => ~ \/ \E n \in Offsets : call_step(n)
                   \/ call_step_default
                   \/ call_step_percentage
    /\ DriverSteps
          => DriverAmountPositive /\ pi'.m_current > pi.m_current

C17_NeverFails == ~fpe

\* A call of step(n), step() or step_percentage(), by the owner of the
\* indicator or by the driver of a sort, in which refresh() is called.
StepRefreshes ==
    /\ pi # null
    /\ pi'.m_lastUpdate # pi.m_lastUpdate
    /\ \/ \E n \in Offsets : call_step(n)
       \/ call_step_default
       \/ call_step_percentage
       \/ sort_test

\* A call of init, which calls refresh().
InitRefreshes ==
    /\ pi # null
    /\ shown' # <<>>
    /\ pi'.m_lastUpdate = shown'[Len(shown')]
    /\ \/ \E range \in Offsets, stepValue \in Offsets :
             call_init(range, stepValue)
       \/ sort_start

\* The reading at this call of refresh() is more than m_threshold ticks
\* from the reading at the previous one, if there was one.
RefreshIsDue ==
    shown # <<>> =>
        elapsed(shown'[Len(shown')], shown[Len(shown)]) > m_threshold

\* C18 (amended): refresh() is called by step(n), step() and
\* step_percentage() only when more than m_threshold ticks have elapsed
\* since the previous call of refresh(), for any sequence of progress
\* operations and any tick readings; init() calls refresh() at once.
C18_Throttle == [][StepRefreshes => RefreshIsDue]_vars

\* C18 witness: a step has called refresh() more than m_threshold ticks
\* after the previous refresh(), and the indicator has left its lower bound.
C18_Witness ==
    /\ pi # null
    /\ Len(shown) = 2
    /\ elapsed(shown[2], shown[1]) > m_threshold
    /\ pi.m_lastUpdate = shown[2]
    /\ pi.m_current > pi.m_minRange

\* C18 as stated: between any two consecutive calls of refresh(), whichever
\* operation makes them, more than m_threshold ticks elapse.
C18_Original == [][(StepRefreshes \/ InitRefreshes) => RefreshIsDue]_vars

\* C19: in every state an indicator reaches, from its construction on and
\* through any sequence of set_range, set_percentage_range, init, step,
\* step_percentage and reset, m_minRange <= m_current <= m_maxRange.
C19_CurrentInRange ==
    pi # null =>
        pi.m_minRange <= pi.m_current /\ pi.m_current <= pi.m_maxRange

\* ------------------------------------------------ sorting a sorted result

\* C20 (amended): for any input whose elements are equal whenever they are
\* equivalent under the comparator, and any interleaving of the workers,
\* sorting the result of a sort again leaves it unchanged.
C20_Idempotent ==
    (pass = 1 /\ dpc = "returned" /\ compKind = "less") => arr = orig

\* C20 witness: a sorted result of MaxN elements, not all equal, has been
\* sorted again by jobs with the comparator that tells all elements apart.
C20_Witness ==
    /\ pass = 1 /\ dpc = "returned" /\ compKind = "less"
    /\ Size(arr) = MaxN
    /\ arr[0] # arr[MaxN - 1]
    /\ Len(doneOrder) > 1

\* C20 as stated: the same for any input, inputs with elements that are
\* equivalent under the comparator but distinguishable included.
C20_Original ==
    (pass = 1 /\ dpc = "returned") => arr = orig


\* ------------------------------------------- the two paths of parallel_sort

\* C21: a range of fewer than min_size elements (0, 1 and min_size - 1
\* included) is sorted in place on the sequential path: no job is ever
\* created or enqueued, the driver never reaches the progress loop or the
\* wait on the condition variable, and the call returns; a range of min_size
\* elements or more gets a root job as soon as the call has started.
C21_SequentialPath ==
    /\ Size(arr) < min_size =>
          /\ jobs = <<>> /\ queue = <<>> /\ workers = <<>>
          /\ dpc \in {"start", "returned"}
          /\ dpc = "returned" =>
                Sorted(arr, compKind) /\ Permutation(arr, orig)
    /\ (Size(arr) >= min_size /\ dpc # "start") => master \in DOMAIN jobs

\* C21 witness: a range of min_size - 1 elements that was out of order has
\* been returned, with no job created.
C21_Witness ==
    /\ Size(arr) = min_size - 1
    /\ dpc = "returned"
    /\ arr # orig
    /\ jobs = <<>>


\* ------------------------------------------------- the lifetime of the jobs

\* The step destroys job j.
Destroys(j) == ~jobs[j].deleted /\ jobs'[j].deleted

C22_Step ==
    \A j \in DOMAIN jobs :
        /\ jobs[j].deleted => jobs'[j].deleted
        /\ Destroys(j) =>
              IF jobs[j].parent # null
              THEN /\ j \in DOMAIN workers
                   /\ workers[j].pc = "on_done"
                   /\ jobs'[j].ondone = jobs[j].ondone + 1
                   /\ ~jobs[jobs[j].parent].deleted
                   /\ jobs[jobs[j].parent].ondone = 0
              ELSE /\ j = master
                   /\ dpc = "join" /\ rootDone /\ dpc' = "returned"

\* No job that was destroyed is running, or has its on_done or its
\* child_done invoked; when the sort has returned every job was destroyed.
C22_State ==
    /\ \A j \in DOMAIN workers :
          jobs[j].deleted => workers[j].pc = "job_done"
    /\ \A j \in DOMAIN jobs :
          (jobs[j].parent # null /\ ~jobs[j].deleted) =>
              ~jobs[jobs[j].parent].deleted
    /\ dpc = "returned" => \A j \in DOMAIN jobs : jobs[j].deleted

\* C22: every job but the root is destroyed exactly once, and only in its
\* parent's child_done called from its own on_done, when the parent is
\* neither destroyed nor past its own on_done, so that the parent pointer
\* of a job is valid whenever it is dereferenced; the root is destroyed only
\* by the driver, after join() has returned.
C22_Lifetime == [][C22_Step]_vars /\ []C22_State

\* C22 witness: the sort has returned and destroyed its root after three
\* generations of jobs were destroyed by their parents.
C22_Witness ==
    /\ dpc = "returned"
    /\ jobs # <<>>
    /\ jobs[master].deleted
    /\ \E j \in DOMAIN jobs :
          /\ jobs[j].parent # null
          /\ jobs[jobs[j].parent].parent # null
          /\ jobs[j].deleted


\* ------------------------------------------------------------- AMI_device

\* Bounds: the longest path (or value of an environment variable) and the
\* largest count given to the constructor.
MaxPath == 3
MaxCount == 2

\* C strings are sequences of characters (without the final NUL).
Chars == {"a", ":"}
Paths == UNION {[1..n -> Chars] : n \in 0..MaxPath}

\* The names of the environment variables the library consults.
Names == {"AMI_SINGLE_DEVICE", "TMPDIR"}

\* A descriptor: `members` tells whether argc and argv hold values that were
\* written ("written"), were never written ("indeterminate"), or are what
\* the loop while (argc--) leaves behind, a wrapped-around counter and a
\* pointer to deleted storage ("disposed").
Descriptor(members, argc, argv) ==
    [members |-> members, argc |-> argc, argv |-> argv]

\* AMI_device(void): argc and argv are left unwritten.
AMI_device_void == Descriptor("indeterminate", 0, null)

\* AMI_device(count, strings): the strings are copied.
AMI_device(count, strings) ==
    IF count # 0
    THEN Descriptor("written", count, [i \in 1..count |-> strings[i]])
    ELSE Descriptor("written", 0, null)

\* arity()
arity(d) == d.argc

\* dispose_contents(): the outcomes it can have, each a descriptor and
\* whether the process was stopped.  On a descriptor whose members were
\* never written the test of argc reads an indeterminate value: it is taken
\* for zero, or for a count of pointers to delete, which stops the process
\* or goes unnoticed.
dispose_contents(d) ==
    IF d.members = "indeterminate"
    THEN {[crash |-> FALSE, d |-> d],
          [crash |-> TRUE, d |-> d],
          [crash |-> FALSE, d |-> Descriptor("disposed", 0, null)]}
    ELSE IF d.members = "written" /\ d.argc # 0
         THEN {[crash |-> FALSE, d |-> Descriptor("disposed", 0, null)]}
         ELSE {[crash |-> FALSE, d |-> d]}

\* The number of ':' in path.
Colons(path) == Cardinality({i \in 1..Len(path) : path[i] = ":"})

\* The scan while (*s && (*s != ':')) s++ from position s of path.
RECURSIVE ScanComponent(_, _)
ScanComponent(path, s) ==
    IF s <= Len(path) /\ path[s] # ":" THEN ScanComponent(path, s + 1)
    ELSE s

\* The copy loop of set_to_path: components ii .. argc - 1, the current one
\* starting at position t.
RECURSIVE CopyComponents(_, _, _, _, _)
CopyComponents(path, argc, ii, t, argv) ==
    IF ii < argc
    THEN LET s == ScanComponent(path, t)
         IN  CopyComponents(path, argc, ii + 1, s + 1,
                            Append(argv, SubSeq(path, t, s - 1)))
    ELSE argv

\* set_to_path(path): the outcomes it can have (it returns
\* AMI_ERROR_NO_ERROR unless the process was stopped).
set_to_path(d, path) ==
    {IF r.crash THEN r
     ELSE [crash |-> FALSE,
           d |-> Descriptor("written", 1 + Colons(path),
                     CopyComponents(path, 1 + Colons(path), 0, 1, <<>>))] :
     r \in dispose_contents(d)}

\* getenv(name): null, or the value in a one-element sequence.
getenv(name) == env[name]

DeviceCall(kind, arg, ret) == [kind |-> kind, arg |-> arg, ret |-> ret]

DeviceUsable == dop.kind # "none" /\ dop.ret # "crash"

DeviceFrame ==
    /\ UNCHANGED cacheVars
    /\ UNCHANGED sortVars
    /\ UNCHANGED streamVars
    /\ UNCHANGED progressVars
    /\ UNCHANGED pass
    /\ UNCHANGED <<part, nsteps>>

call_set_to_path(path) ==
    /\ DeviceUsable
    /\ \E r \in set_to_path(dev, path) :
          /\ dev' = r.d
          /\ dop' = DeviceCall("set_to_path", path,
                               IF r.crash THEN "crash"
                               ELSE "AMI_ERROR_NO_ERROR")
    /\ UNCHANGED env
    /\ DeviceFrame

read_environment(name) ==
    /\ DeviceUsable
    /\ LET env_value == getenv(name)
       IN  IF env_value = null
           THEN /\ dop' = DeviceCall("read_environment", <<name>>,
                                     "AMI_ERROR_ENV_UNDEFINED")
                /\ UNCHANGED dev
           ELSE \E r \in set_to_path(dev, env_value[1]) :
                   /\ dev' = r.d
                   /\ dop' = DeviceCall("read_environment", <<name>>,
                                        IF r.crash THEN "crash"
                                        ELSE "AMI_ERROR_NO_ERROR")
    /\ UNCHANGED env
    /\ DeviceFrame

\* A descriptor was constructed, in a process with some environment.
InitDevice ==
    /\ NoCache
    /\ NoSort
    /\ NoStream /\ NoProgress
    /\ NoCall
    /\ \/ dev = AMI_device_void
       \/ \E count \in 0..MaxCount :
             \E strings \in [1..count -> {<<>>, <<"a">>}] :
                dev = AMI_device(count, strings)
    /\ env \in [Names -> {null} \cup {<<value>> : value \in Paths}]
    /\ dop = DeviceCall("new", <<>>, "none")

NextDevice ==
    \/ \E path \in Paths : call_set_to_path(path)
    \/ \E name \in Names : read_environment(name)

SpecDevice == InitDevice /\ [][NextDevice]_vars

\* The ':'-separated list that components i .. of argv spell.
RECURSIVE Joined(_, _)
Joined(argv, i) ==
    IF i > Len(argv) THEN <<>>
    ELSE IF i = Len(argv) THEN argv[i]
    ELSE argv[i] \o <<":">> \o Joined(argv, i + 1)

\* The effect the claim gives read_environment.
AsSetToPath(value) ==
    /\ dop'.ret = "AMI_ERROR_NO_ERROR"
    /\ dev'.members = "written"
    /\ arity(dev') = 1 + Colons(value)
    /\ Len(dev'.argv) = arity(dev')
    /\ \A i \in 1..Len(dev'.argv) :
          \A k \in 1..Len(dev'.argv[i]) : dev'.argv[i][k] # ":"
    /\ Joined(dev'.argv, 1) = value

C23_Step ==
    dop'.kind = "read_environment" =>
        LET env_value == getenv(dop'.arg[1])
        IN  IF env_value = null
            THEN /\ dop'.ret = "AMI_ERROR_ENV_UNDEFINED"
                 /\ dev' = dev
            ELSE AsSetToPath(env_value[1])

\* C23: read_environment(name) returns the env-undefined error when the
\* variable is absent and then leaves the component list as it was; when
\* the variable is present it does what set_to_path(value) does and leaves
\* 1 + (number of ':' in the value) components, those of the value in
\* their order.
C23_ReadEnvironment == [][C23_Step]_vars

\* The same of descriptors whose members a constructor or an earlier call
\* has written.
C23_Written == [][dev.members = "written" => C23_Step]_vars

C23_Absent ==
    /\ dop.kind = "read_environment" /\ getenv(dop.arg[1]) = null
    /\ dop.ret = "AMI_ERROR_ENV_UNDEFINED" /\ dev.argc = MaxCount

C23_Present ==
    /\ dop.kind = "read_environment" /\ getenv(dop.arg[1]) # null
    /\ dop.ret = "AMI_ERROR_NO_ERROR"
    /\ dev.argv = <<<<"a">>, <<>>, <<>>>>

\* The call stopped the process.
C23_Crash == dop.kind = "read_environment" /\ dop.ret = "crash"

C23_NoCrash == ~C23_Crash


\* ------------------------------------------------- partition on its own

\* Bounds: the longest array and the largest element partition is tried on.
MaxRange == 8
MaxValue == 2

Values == 0..MaxValue

\* partition(a, b, comp) is called on a range [a,b) of the array.  One call
\* is followed: every array a second call could start from is an initial
\* array.
call_partition(a, b) ==
    /\ part = null
    /\ LET r == partition(arr, compKind, a, b)
       IN  /\ arr' = r.arr
           /\ part' = [a |-> a, b |-> b, ret |-> r.ret,
                       touched |-> r.touched]
    /\ orig' = arr
    /\ UNCHANGED <<compKind, nworkers, jobs, queue, workers, work_estimate,
                   total_work_estimate, prev_work_estimate, mutex,
                   signalled, dpc, rootDone, doneOrder>>
    /\ UNCHANGED cacheVars
    /\ UNCHANGED streamVars
    /\ UNCHANGED progressVars
    /\ UNCHANGED deviceVars
    /\ UNCHANGED <<pass, nsteps>>

\* Some array, some comparator, no call yet.
InitPartition ==
    /\ NoCache
    /\ NoStream /\ NoProgress /\ NoDevice
    /\ \E n \in 1..MaxRange : arr \in [0..(n - 1) -> Values]
    /\ orig = arr
    /\ compKind \in {"less", "half"}
    /\ nworkers = 0 /\ jobs = <<>> /\ queue = <<>> /\ workers = <<>>
    /\ work_estimate = [hi |-> 0, lo |-> 0]
    /\ total_work_estimate = [hi |-> 0, lo |-> 0]
    /\ prev_work_estimate = [hi |-> 0, lo |-> 0]
    /\ mutex = "free" /\ signalled = FALSE /\ dpc = "none"
    /\ rootDone = FALSE /\ doneOrder = <<>>
    /\ pass = 0
    /\ part = null /\ nsteps = null

NextPartition ==
    \E a \in DOMAIN arr : \E b \in (a + 1)..Size(arr) : call_partition(a, b)

SpecPartition == InitPartition /\ [][NextPartition]_vars

\* C24: partition(a, b, comp) on a non-empty range returns (it terminates),
\* dereferences only positions of [a,b), permutes the range and leaves the
\* rest alone, and returns p with a <= p < b such that comp(*p, x) is false
\* for every x of [a,p) and comp(x, *p) is false for every x of (p,b).
C24_Partition ==
    part # null =>
        /\ part.a <= part.ret /\ part.ret < part.b
        /\ part.touched \subseteq part.a..(part.b - 1)
        /\ DOMAIN arr = DOMAIN orig
        /\ \A i \in DOMAIN arr \ part.a..(part.b - 1) : arr[i] = orig[i]
        /\ \A x \in Values :
              Occurs(arr, part.a, part.b, x) = Occurs(orig, part.a, part.b, x)
        /\ \A i \in part.a..(part.ret - 1) :
              ~comp(compKind, arr[part.ret], arr[i])
        /\ \A i \in (part.ret + 1)..(part.b - 1) :
              ~comp(compKind, arr[i], arr[part.ret])

\* A range inside a longer array whose pivot occurs several times and is the
\* range's maximum, with a smaller element moved in front of it.
C24_Witness ==
    /\ part # null /\ compKind = "less"
    /\ part.a > 0 /\ part.b < Size(arr) /\ arr # orig
    /\ Occurs(arr, part.a, part.b, arr[part.ret]) > 1
    /\ \A i \in part.a..(part.b - 1) : arr[i] <= arr[part.ret]


\* ------------------------------------------------ percentage arithmetic

\* C25: after set_percentage_range and then N calls of step_percentage and
\* nothing else, m_percentageValue >= 1, current is the smaller of
\* m_minRange + floor(N / m_percentageValue) and m_maxRange, and
\* m_percentageChecker lies in [0, m_percentageValue - 1].
C25_Percentage ==
    nsteps # null =>
        /\ pi.m_percentageValue >= 1
        /\ pi.m_current =
              std_min(pi.m_minRange + nsteps[1] \div pi.m_percentageValue,
                      pi.m_maxRange)
        /\ pi.m_percentageChecker \in 0..(pi.m_percentageValue - 1)
        /\ pi.m_current <= pi.m_maxRange

\* More increments were recorded than the range has units of several
\* increments each: the indicator stands at m_maxRange.
C25_Witness ==
    /\ nsteps = <<MaxSteps>>
    /\ pi.m_percentageValue > 1
    /\ pi.m_minRange + MaxSteps \div pi.m_percentageValue > pi.m_maxRange
    /\ pi.m_current = pi.m_maxRange /\ pi.m_current > pi.m_minRange


\* ------------------------------------------------ ownership of elements

\* The job has been created and has not finished its body.
Live(j) == ~jobs[j].bodydone /\ ~jobs[j].deleted

\* The positions of the range [a,b) job j holds.
Owned(j) == jobs[j].a..(jobs[j].b - 1)

\* The positions partition has returned and a child's range ends at.
Pivots == {jobs[j].b : j \in {k \in DOMAIN jobs : jobs[k].parent # null}}

C26_Disjoint ==
    jobs # <<>> =>
        /\ \A j, k \in DOMAIN jobs :
              (j # k /\ Live(j) /\ Live(k)) => Owned(j) \cap Owned(k) = {}
        /\ \A i \in DOMAIN orig :
              Cardinality({j \in DOMAIN jobs : i \in Owned(j)})
                  + (IF i \in Pivots THEN 1 ELSE 0) = 1

C26_Step ==
    jobs # <<>> =>
        \A i \in DOMAIN arr :
            arr'[i] # arr[i] =>
                \E j \in DOMAIN workers :
                    /\ workers[j].pc = "body" /\ Live(j) /\ i \in Owned(j)
                    /\ \A k \in DOMAIN jobs :
                          (k # j /\ Live(k)) => i \notin Owned(k)

\* C26: during a parallel sort the ranges of distinct live qsort_jobs are
\* pairwise disjoint, an element is changed only by the running job whose
\* range holds it, and every position of the sorted range is a pivot
\* position or lies in the range of exactly one job.
C26_Ownership == []C26_Disjoint /\ [][C26_Step]_vars

\* Two jobs with non-empty ranges are in their bodies at the same time.
C26_Witness ==
    \E j, k \in DOMAIN workers :
        /\ j # k /\ Live(j) /\ Live(k)
        /\ workers[j].pc = "body" /\ workers[k].pc = "body"
        /\ Owned(j) # {} /\ Owned(k) # {}


\* ------------------------------------------------ conservation of values

\* How often value v occurs in the sequence s.
CountIn(s, v) == Cardinality({i \in 1..Len(s) : s[i] = v})

\* How many occupied items of p hold value v.
Resident(p, v) ==
    Cardinality({j \in DOMAIN p : p[j].first # 0 /\ p[j].second = v})

\* One operation: what was resident, plus the value written, is what is
\* resident afterwards, plus the value a read hit returned, plus the values
\* handed to the write-out functor.
C27_Balance ==
    \A v \in Vals :
        Resident(pdata_, v)
            + (IF op'.kind = "write" /\ op'.v = v THEN 1 ELSE 0)
        = Resident(pdata_', v)
            + (IF op'.kind = "read" /\ op'.ret /\ op'.item = v
               THEN 1 ELSE 0)
            + CountIn(wb', v)

\* After flush nothing is resident.
C27_Flushed ==
    op.kind = "flush" => \A v \in Vals : Resident(pdata_, v) = 0

\* C27: every value passed to write leaves the cache exactly once, by a
\* read hit or by the write-out functor: each operation keeps the balance
\* of values written, resident, returned and written out, and flush leaves
\* nothing resident.
C27_Conservation == [][C27_Balance]_vars /\ []C27_Flushed

\* A read hit returns a value of which another copy stays resident.
C27_Witness ==
    /\ op.kind = "read" /\ op.ret
    /\ Resident(pdata_, op.item) > 0


\* ------------------------------------------------ sets of several slots

\* Bounds: the caches of up to MaxSets lines of up to MaxAssoc items each.
MaxSets == 2
MaxAssoc == 2

InitSets ==
    /\ \E s \in 0..MaxSets, a \in 1..MaxAssoc :
          Constructed(s * a, a, "null", 0)
    /\ NoSort
    /\ NoStream /\ NoProgress /\ NoDevice
    /\ NoCall

SpecSets == InitSets /\ [][Next]_vars

\* The number of the line slot j of pdata_ belongs to.
LineIndex(j) == j \div assoc_

C28_Step ==
    op'.kind \in {"read", "write", "erase"} =>
        /\ \A j \in DOMAIN pdata_ :
              LineIndex(j) # op'.k % sets_ => pdata_'[j] = pdata_[j]
        /\ (op'.kind = "read" /\ ~op'.ret) => pdata_' = pdata_
        /\ (op'.kind = "read" /\ op'.ret) =>
              \E j \in DOMAIN pdata_ :
                  /\ LineIndex(j) = op'.k % sets_
                  /\ pdata_[j] = item_type_(op'.k, op'.item)

C28_Home ==
    \A j \in DOMAIN pdata_ :
        Occupied(pdata_, j) => LineIndex(j) = pdata_[j].first % sets_

\* C28: read(k), write(k,v) and erase(k) change only the slots of line
\* k mod S, every other line keeps its contents and order, a read that
\* misses changes no slot, a read hit returns an item of line k mod S, and
\* every entry lies in the line its key hashes to.
C28_SetLocal == [][C28_Step]_vars /\ []C28_Home

\* An item was inserted in front of another one of its line while a
\* different line holds two items.
C28_Witness ==
    /\ op.kind = "write" /\ sets_ > 1 /\ assoc_ > 1
    /\ \E s \in 0..(sets_ - 1) :
          /\ s # op.k % sets_
          /\ \A i \in 0..(assoc_ - 1) : Occupied(pdata_, s * assoc_ + i)
    /\ Occupied(pdata_, SetBase(op.k) + 1)


\* ------------------------------------------------ one slot for each key

\* C29: no nonzero key is stored in more than one slot of pdata_.
C29_UniqueKeys ==
    \A i, j \in DOMAIN pdata_ :
        (i # j /\ Occupied(pdata_, i) /\ Occupied(pdata_, j))
            => pdata_[i].first # pdata_[j].first

\* ------------------------------------------------ erase without capacity

C30_Step ==
    (capacity_ = 0 /\ op'.kind = "erase") =>
        /\ ~crashed'
        /\ ~op'.ret
        /\ wb' = <<>>

\* C30: on a cache constructed with capacity 0, erase(k) returns false,
\* calls no write-out and computes nothing undefined.
C30_EraseMisses == [][C30_Step]_vars

====
